---------------------------- MODULE Spec2Model ----------------------------
(***************************************************************************)
(* Model of the ParseAPI server (src/index.js, its earlier copy appended   *)
(* to the same file, and the first version kept as src/unnamed/part_000).  *)
(*                                                                         *)
(* Numbers: JavaScript doubles are modelled as exact integers, and the     *)
(* quotients of calculateExpectedAmount (week/5, month/20, month/4) as     *)
(* exact fractions over the common denominator 20.  Rounding of doubles is *)
(* not modelled.                                                           *)
(***************************************************************************)
EXTENDS Integers, Sequences, FiniteSets, TLC

(***************************************************************************)
(* JavaScript values as they arrive in JSON: null/undefined, a number, or  *)
(* a string.                                                               *)
(***************************************************************************)
Null == [t |-> "null", n |-> 0, d |-> 1, s |-> ""]
Num(k) == [t |-> "num", n |-> k, d |-> 1, s |-> ""]
Str(x) == [t |-> "str", n |-> 0, d |-> 1, s |-> x]
\* A number that is a quotient n / d (d > 0), kept as written.
Frac(k, m) == [t |-> "num", n |-> k, d |-> m, s |-> ""]
\* A string holding the date and time k half days after some day.
DateStr(k) == [t |-> "str", n |-> k, d |-> 1, s |-> "date"]

Truthy(v) == (v.t = "num" /\ v.n # 0) \/ (v.t = "str" /\ v.s # "")

\* The result of parseFloat / parseInt: NaN or a number.
NaN == [nan |-> TRUE, n |-> 0]
Number(k) == [nan |-> FALSE, n |-> k]

Digits == "0123456789"
IsDigit(c) == \E d \in 0..9 : SubSeq(Digits, d + 1, d + 1) = c
DigitVal(c) == CHOOSE d \in 0..9 : SubSeq(Digits, d + 1, d + 1) = c

RECURSIVE SkipWhite(_)
SkipWhite(s) ==
  IF Len(s) > 0 /\ SubSeq(s, 1, 1) = " "
  THEN SkipWhite(SubSeq(s, 2, Len(s)))
  ELSE s

RECURSIVE ParseDigits(_, _, _)
ParseDigits(s, acc, seen) ==
  IF Len(s) > 0 /\ IsDigit(SubSeq(s, 1, 1))
  THEN ParseDigits(SubSeq(s, 2, Len(s)), acc * 10 + DigitVal(SubSeq(s, 1, 1)), TRUE)
  ELSE IF seen THEN Number(acc) ELSE NaN

Signed(neg, p) == IF p.nan THEN NaN ELSE Number(IF neg THEN 0 - p.n ELSE p.n)

\* An optional sign, then digits.
ParseSigned(t) ==
  IF Len(t) > 0 /\ SubSeq(t, 1, 1) \in {"-", "+"}
  THEN Signed(SubSeq(t, 1, 1) = "-", ParseDigits(SubSeq(t, 2, Len(t)), 0, FALSE))
  ELSE ParseDigits(t, 0, FALSE)

\* The numeric prefix of a string: leading blanks, an optional sign, digits;
\* NaN when no digit follows.
ParseNumericPrefix(s) == ParseSigned(SkipWhite(s))

parseFloat(v) ==
  CASE v.t = "num" -> Number(v.n)
    [] v.t = "str" -> ParseNumericPrefix(v.s)
    [] OTHER -> NaN

parseInt(v) ==
  CASE v.t = "num" -> Number(v.n)
    [] v.t = "str" -> ParseNumericPrefix(v.s)
    [] OTHER -> NaN

\* `x || d` on a parsed number: NaN and 0 are falsy.
OrElse(p, d) == IF p.nan \/ p.n = 0 THEN d ELSE p.n

\* `a || b || c` on numbers.
Or3(a, b, c) == IF a # 0 THEN a ELSE IF b # 0 THEN b ELSE c

Min2(a, b) == IF a <= b THEN a ELSE b
Min3(a, b, c) == Min2(a, Min2(b, c))

\* Math.ceil(a / b) for b > 0.
CeilDiv(a, b) == 0 - ((0 - a) \div b)

(***************************************************************************)
(* calculateExpectedAmount.  The value returned is the numerator of the    *)
(* amount over the denominator 20: effectiveDay * 20 is day * 20, week * 4 *)
(* or month, and so on, so every quotient of the code is exact.            *)
(***************************************************************************)
Tiers_Slip(day, week, month, days) ==
  LET effectiveDay == Or3(day * 20, week * 4, month)
      effectiveWeek == Or3(week * 20, day * 100, month * 5)
      effectiveMonth == Or3(month * 20, week * 80, day * 400)
  IN  IF day = 0 /\ week = 0 /\ month = 0 THEN 0
      ELSE IF days <= 2 THEN effectiveDay * days
      ELSE IF days < 6 THEN Min2(effectiveDay * days, effectiveWeek)
      ELSE IF days <= 27
           THEN Min3(effectiveDay * days, effectiveWeek * CeilDiv(days, 7), effectiveMonth)
      ELSE Min2(effectiveMonth * CeilDiv(days, 28), effectiveWeek * CeilDiv(days, 7))

\* Lines 304-313, on the four numbers read at lines 299-302.
Tiers(day, week, month, days) ==
  LET effectiveDay == Or3(day * 20, week * 4, month)
      effectiveWeek == Or3(week * 20, day * 100, month * 5)
      effectiveMonth == Or3(month * 20, week * 80, day * 400)
  IN  IF day = 0 /\ week = 0 /\ month = 0 THEN 0
      ELSE IF days <= 2 THEN effectiveDay * days
      ELSE IF days <= 6 THEN Min2(effectiveDay * days, effectiveWeek)
      ELSE IF days <= 27
           THEN Min3(effectiveDay * days, effectiveWeek * CeilDiv(days, 7), effectiveMonth)
      ELSE Min2(effectiveMonth * CeilDiv(days, 28), effectiveWeek * CeilDiv(days, 7))

calculateExpectedAmount(dayRate, weekRate, fourWeekRate, rentalDays) ==
  Tiers(OrElse(parseFloat(dayRate), 0), OrElse(parseFloat(weekRate), 0),
        OrElse(parseFloat(fourWeekRate), 0), OrElse(parseInt(rentalDays), 1))

TiersOlder_NoMonthCap(day, week, month, days) ==
  LET effectiveDay == Or3(day * 20, week * 4, month)
      effectiveWeek == Or3(week * 20, day * 100, month * 5)
      effectiveMonth == Or3(month * 20, week * 80, day * 400)
  IN  IF day = 0 /\ week = 0 /\ month = 0 THEN 0
      ELSE IF days <= 2 THEN effectiveDay * days
      ELSE IF days <= 6 THEN Min2(effectiveDay * days, effectiveWeek)
      ELSE IF days <= 27
           THEN Min2(effectiveDay * days, effectiveWeek * CeilDiv(days, 7))
      ELSE Min2(effectiveMonth * CeilDiv(days, 28), effectiveWeek * CeilDiv(days, 7))

\* The copy at lines 1034-1064: lines 1040-1063 (the early return of 0, the
\* three effective rates, the if / else-if chain), on the four numbers read
\* at lines 1035-1038.
TiersOlder(day, week, month, days) ==
  IF day = 0 /\ week = 0 /\ month = 0
  THEN 0
  ELSE LET effectiveDay == Or3(day * 20, week * 4, month)
           effectiveWeek == Or3(week * 20, day * 100, month * 5)
           effectiveMonth == Or3(month * 20, week * 80, day * 400)
       IN  CASE days <= 2 -> effectiveDay * days
             [] days > 2 /\ days <= 6 -> Min2(effectiveDay * days, effectiveWeek)
             [] days > 6 /\ days <= 27 ->
                  Min3(effectiveDay * days, effectiveWeek * CeilDiv(days, 7),
                       effectiveMonth)
             [] OTHER ->
                  Min2(effectiveMonth * CeilDiv(days, 28),
                       effectiveWeek * CeilDiv(days, 7))

calculateExpectedAmountOlder(dayRate, weekRate, fourWeekRate, rentalDays) ==
  TiersOlder(OrElse(parseFloat(dayRate), 0), OrElse(parseFloat(weekRate), 0),
             OrElse(parseFloat(fourWeekRate), 0), OrElse(parseInt(rentalDays), 1))

(***************************************************************************)
(* String helpers of the fee reclassification.                             *)
(***************************************************************************)
UpperCase == "ABCDEFGHIJKLMNOPQRSTUVWXYZ"
LowerCase == "abcdefghijklmnopqrstuvwxyz"
LowerChar(c) ==
  IF \E i \in 1..26 : SubSeq(UpperCase, i, i) = c
  THEN LET i == CHOOSE j \in 1..26 : SubSeq(UpperCase, j, j) = c
       IN  SubSeq(LowerCase, i, i)
  ELSE c

RECURSIVE toLowerCase(_)
toLowerCase(s) ==
  IF Len(s) = 0 THEN ""
  ELSE LowerChar(SubSeq(s, 1, 1)) \o toLowerCase(SubSeq(s, 2, Len(s)))

\* String.prototype.includes
includes(s, kw) ==
  \E i \in 1..(Len(s) - Len(kw) + 1) : SubSeq(s, i, i + Len(kw) - 1) = kw

freightKeywords ==
  << "delivery", "pickup", "pick up", "pick-up", "freight", "hauling",
     "mobilization", "demobilization", "cartage", "transport", "trucking",
     "inbound", "outbound", "drayage" >>

HasFreightKeyword(lowerName) ==
  \E k \in 1..Len(freightKeywords) : includes(lowerName, freightKeywords[k])

IsFreightName_NoSurchargeTest(lowerName) == HasFreightKeyword(lowerName)

IsFreightName(lowerName) ==
  HasFreightKeyword(lowerName) /\ ~includes(lowerName, "surcharge")

isFreight(feeName) == IsFreightName(toLowerCase(feeName))

ReclassifyEntry_DropAmount(acc, entry, amount) ==
  IF isFreight(entry.name) /\ amount > 0
  THEN acc
  ELSE [acc EXCEPT !.remainingFees = Append(@, entry)]

\* One turn of the loop over Object.entries(parsed.fees): `amount` is
\* parseFloat(feeAmount) || 0; acc is [freight, remainingFees].
ReclassifyEntry(acc, entry, amount) ==
  IF isFreight(entry.name) /\ amount > 0
  THEN [acc EXCEPT !.freight = @ + amount]
  ELSE [acc EXCEPT !.remainingFees = Append(@, entry)]

RECURSIVE ReclassifyFrom(_, _, _)
ReclassifyFrom(entries, i, acc) ==
  IF i > Len(entries) THEN acc
  ELSE ReclassifyFrom(entries, i + 1,
         ReclassifyEntry(acc, entries[i], OrElse(parseFloat(entries[i].amount), 0)))

\* Sum of parseFloat(f) || 0 over the values of a fees object.
RECURSIVE SumFees(_)
SumFees(entries) ==
  IF entries = <<>> THEN 0
  ELSE OrElse(parseFloat(Head(entries).amount), 0) + SumFees(Tail(entries))

\* `x || null` on a number.
OrNull(k) == IF k = 0 THEN Null ELSE Num(k)

MeterChargesColumn_OrNull(meterCharges) == OrNull(meterCharges)

\* meter_charges of the inserted row.
MeterChargesColumn(meterCharges) ==
  IF meterCharges > 0 THEN Num(meterCharges) ELSE Null

FeePercentage(feesTotal, rentalSubtotal) ==
  IF rentalSubtotal > 0 THEN Frac(feesTotal * 100, rentalSubtotal) ELSE Num(0)

DerivedRecord(rentalSubtotal, freight, remainingFees, meterCharges, feesTotal) ==
  [rentalSubtotal |-> rentalSubtotal, freight |-> freight,
   remainingFees |-> remainingFees, meterCharges |-> meterCharges,
   feesTotal |-> feesTotal,
   feePercentage |-> FeePercentage(feesTotal, rentalSubtotal)]

DerivedFrom(rentalSubtotal, rc, meterCharges) ==
  DerivedRecord(rentalSubtotal, rc.freight, rc.remainingFees, meterCharges,
                SumFees(rc.remainingFees) + meterCharges)

\* The quantities the current /parse-base64 derives from the parsed JSON.
DerivedCur(parsed) ==
  DerivedFrom(
    OrElse(parseFloat(parsed.rental_subtotal), 0),
    IF parsed.fees.isObject
    THEN ReclassifyFrom(parsed.fees.entries, 1,
           [freight |-> OrElse(parseFloat(parsed.freight), 0), remainingFees |-> <<>>])
    ELSE [freight |-> OrElse(parseFloat(parsed.freight), 0), remainingFees |-> <<>>],
    OrElse(parseFloat(parsed.meter_charges), 0))

\* The quantities the earlier copies derive: no reclassification, no freight.
DerivedOld(parsed) ==
  DerivedRecord(
    OrElse(parseFloat(parsed.rental_subtotal), 0), 0,
    IF parsed.fees.isObject THEN parsed.fees.entries ELSE <<>>, 0,
    IF parsed.fees.isObject THEN SumFees(parsed.fees.entries) ELSE 0)

Derived(ver, parsed) == IF ver = "cur" THEN DerivedCur(parsed) ELSE DerivedOld(parsed)

\* The row handed to parsed_invoices.insert (the columns the claims read),
\* from the derived quantities dv.
RowOf(ver, dv, parsed, userId) ==
  [user_id |-> userId,
   rental_subtotal |-> OrNull(dv.rentalSubtotal),
   freight |-> IF ver = "cur" THEN OrNull(dv.freight) ELSE Null,
   freight_total |-> IF ver = "cur" THEN OrNull(dv.freight) ELSE Null,
   meter_charges |-> IF ver = "cur" THEN MeterChargesColumn(dv.meterCharges) ELSE Null,
   fees_total |-> OrNull(dv.feesTotal),
   tax |-> OrNull(OrElse(parseFloat(parsed.tax), 0)),
   total |-> OrNull(OrElse(parseFloat(parsed.total), 0)),
   fees |-> dv.remainingFees,
   equipment |-> parsed.equipment,
   fee_percentage |-> IF dv.feePercentage.n = 0 THEN Null ELSE dv.feePercentage]

InvoiceRow(ver, parsed, userId) == RowOf(ver, Derived(ver, parsed), parsed, userId)

(***************************************************************************)
(* The equipment loop of /parse-base64.                                    *)
(***************************************************************************)
DefaultRentalDays == 28

MsPerDay == 86400000

\* new Date(v) in milliseconds: NaN for anything but a date string.
DateOf(v) ==
  IF v.t = "str" /\ v.s = "date" THEN Number(v.n * (MsPerDay \div 2)) ELSE NaN

Abs(k) == IF k < 0 THEN 0 - k ELSE k

\* diffDays = Math.ceil(Math.abs(toDate - fromDate) / MsPerDay), and the 28
\* kept when diffDays is NaN or 0.
DiffDays(fromDate, toDate) ==
  IF ~fromDate.nan /\ ~toDate.nan /\ CeilDiv(Abs(toDate.n - fromDate.n), MsPerDay) > 0
  THEN CeilDiv(Abs(toDate.n - fromDate.n), MsPerDay)
  ELSE DefaultRentalDays

invoiceRentalDays(parsed) ==
  IF Truthy(parsed.billed_from) /\ Truthy(parsed.billed_through)
  THEN DiffDays(DateOf(parsed.billed_from), DateOf(parsed.billed_through))
  ELSE DefaultRentalDays

ItemDaysOr_FromOne(itemDays, invDays) ==
  IF ~itemDays.nan /\ itemDays.n # 0 /\ itemDays.n >= 1 THEN itemDays.n ELSE invDays

\* (itemDays && itemDays > 1) ? itemDays : invoiceRentalDays
ItemDaysOr(itemDays, invDays) ==
  IF ~itemDays.nan /\ itemDays.n # 0 /\ itemDays.n > 1 THEN itemDays.n ELSE invDays

\* rentalDays of one item: the current copy falls back on the invoice's days,
\* the earlier copy on 1.
RentalDays(ver, item, invDays) ==
  IF ver = "cur"
  THEN ItemDaysOr(parseInt(item.rental_days), invDays)
  ELSE OrElse(parseInt(item.rental_days), 1)

AmountOr(amount, item, rentalDays) ==
  IF amount = 0
  THEN calculateExpectedAmount(item.day_rate, item.week_rate,
                               item.four_week_rate, Num(rentalDays))
  ELSE amount * 20

\* actualAmount of one item, over the denominator 20.
ActualAmount(item, rentalDays) ==
  AmountOr(OrElse(parseFloat(item.amount), 0), item, rentalDays)

LoopResult(kind, i, rentalDays, actualAmount) ==
  [kind |-> kind, idx |-> i, rentalDays |-> rentalDays, actualAmount |-> actualAmount]

\* The loop from item i up to the first item that reaches classify_equipment:
\* "item" with its index, "end" when the list is exhausted, "throw" when an
\* item that is not an object is dereferenced (outside the inner try).
RECURSIVE NextItem(_, _, _, _)
SkipOrStop_DescriptionOnly(ver, equipment, invDays, i, rentalDays, actualAmount) ==
  IF ~Truthy(equipment[i].description)
  THEN NextItem(ver, equipment, invDays, i + 1)
  ELSE LoopResult("item", i, rentalDays, actualAmount)

\* if (!item.description || actualAmount === 0) continue;
SkipOrStop(ver, equipment, invDays, i, rentalDays, actualAmount) ==
  IF ~Truthy(equipment[i].description) \/ actualAmount = 0
  THEN NextItem(ver, equipment, invDays, i + 1)
  ELSE LoopResult("item", i, rentalDays, actualAmount)

WithDays(ver, equipment, invDays, i, rentalDays) ==
  SkipOrStop(ver, equipment, invDays, i, rentalDays,
             ActualAmount(equipment[i], rentalDays))

NextItem(ver, equipment, invDays, i) ==
  IF i > Len(equipment) THEN LoopResult("end", i, 0, 0)
  ELSE IF ~equipment[i].isObject THEN LoopResult("throw", i, 0, 0)
  ELSE WithDays(ver, equipment, invDays, i, RentalDays(ver, equipment[i], invDays))

(***************************************************************************)
(* The LLM's text and the two JSON repairs.                                *)
(***************************************************************************)
\* The text of an OpenAI answer, as far as the parsers tell texts apart: "{"
\* and "}", "j" for text that makes the braces around it a JSON object, "x"
\* for any other text, "f" for a Markdown fence.
Content(kind) ==
  CASE kind = "json" -> << "{", "j", "}" >>
    [] kind = "fenced" -> << "f", "{", "j", "}", "f" >>
    [] kind = "prose" -> << "x", "{", "j", "}", "x" >>
    [] kind = "two" -> << "{", "j", "}", "x", "{", "j", "}" >>
    [] kind = "broken" -> << "{", "x", "}" >>
    [] kind = "reversed" -> << "}", "x", "{" >>
    [] kind = "nobrace" -> << "x", "x" >>
    [] OTHER -> <<>>
ContentKinds == {"json", "fenced", "prose", "two", "broken", "reversed", "nobrace"}

\* JSON.parse(text) returns (TRUE) or throws (FALSE).
JSONparse(text) == text = << "{", "j", "}" >>

NotFence(c) == c # "f"
\* /parse: the fences are removed, then JSON.parse.
ParsesAfterFenceStrip(kind) == JSONparse(SelectSeq(Content(kind), NotFence))

Opens(text, k) == {i \in 1..(k - 1) : text[i] = "{"}
Closes(text) == {k \in 1..Len(text) : text[k] = "}" /\ Opens(text, k) # {}}
FirstOf(S) == CHOOSE i \in S : \A j \in S : i <= j
LastOf(S) == CHOOSE i \in S : \A j \in S : j <= i

Match_Lazy(text) ==
  IF Closes(text) = {} THEN <<>>
  ELSE SubSeq(text, FirstOf(Opens(text, LastOf(Closes(text)))), FirstOf(Closes(text)))

\* content.match(/\{[\s\S]*\}/): the leftmost "{" that a "}" follows, up to
\* the last "}"; <<>> when there is no match.
Match(text) ==
  IF Closes(text) = {} THEN <<>>
  ELSE SubSeq(text, FirstOf(Opens(text, LastOf(Closes(text)))), LastOf(Closes(text)))

JsonRepairOf(content, jsonMatch) ==
  IF JSONparse(content) THEN "ok"
  ELSE IF jsonMatch = <<>> THEN "nomatch"
  ELSE IF JSONparse(jsonMatch) THEN "ok"
  ELSE "throw"

\* /parse-base64: JSON.parse, else the match of /\{[\s\S]*\}/.
\* "ok", "nomatch" (the 500 of the else branch) or "throw" (the second
\* JSON.parse throws into the outer catch).
JsonRepair(kind) == JsonRepairOf(Content(kind), Match(Content(kind)))

(***************************************************************************)
(* State.                                                                  *)
(***************************************************************************)
VARIABLES
  scenario,          \* the family of inputs this run draws from (fixed by Init)
  req,               \* per request slot: the HTTP request
  pc,                \* per request slot: where its handler is suspended
  loc,               \* per request slot: the handler's local variables
  chat,              \* per request slot: the locals of the /chat handler
  resp,              \* per request slot: the HTTP response sent
  trace,             \* per request slot: the external calls made, with answers
  parsed_invoices,   \* table parsed_invoices
  equipment_rates,   \* table equipment_rates
  chat_logs,         \* table chat_logs
  referrals,         \* table referrals
  rng,               \* numbers drawn from Math.random so far
  calcIn, calcOut    \* a bare call of calculateExpectedAmount

vars == << scenario, req, pc, loc, chat, resp, trace, parsed_invoices,
           equipment_rates, chat_logs, referrals, rng, calcIn, calcOut >>

\* Requests in flight at once in the multi-request scenarios.
MaxReq == 2
\* One slot more than MaxReq: the replay scenario runs a request twice beside
\* one other request.
Slots == 1..(MaxReq + 1)

NoParsed ==
  [rental_subtotal |-> Null, freight |-> Null, meter_charges |-> Null,
   fees |-> [isObject |-> FALSE, entries |-> <<>>], tax |-> Null, total |-> Null,
   billed_from |-> Null, billed_through |-> Null, equipment |-> <<>>]

NoLoc ==
  [parsed |-> NoParsed, invoiceId |-> 0, invDays |-> 0, idx |-> 0,
   rentalDays |-> 0, actualAmount |-> 0, equipment_class |-> "",
   totalMarketSavings |-> 0, equipmentWithRates |-> <<>>,
   invoices |-> <<>>, inv |-> 0]

\* The locals of /chat: thread.id, runStatus (its status and tool calls),
\* attempts, the index of the tool call being served, toolOutputs, the
\* referralCode drawn by saveGiveawayEntry, responseText; and the number of
\* runs.retrieve calls answered.
NoChat ==
  [threadId |-> "", status |-> "", toolCalls |-> <<>>, hasToolCalls |-> FALSE,
   attempts |-> 0, ti |-> 0, toolOutputs |-> <<>>, referralCode |-> "",
   text |-> "", retrieves |-> 0]

NoBody ==
  [hasInput |-> FALSE, userId |-> Null, message |-> "", threadId |-> "",
   isLoggedIn |-> FALSE]
NoReq == [ver |-> "", path |-> "", body |-> NoBody]

NoData == [none |-> TRUE]
NoResp == [status |-> 0, success |-> FALSE, error |-> "", data |-> NoData]

NoCalc == [done |-> FALSE, v |-> 0, older |-> 0]

InitServer ==
  /\ req = [r \in Slots |-> NoReq]
  /\ pc = [r \in Slots |-> "idle"]
  /\ loc = [r \in Slots |-> NoLoc]
  /\ chat = [r \in Slots |-> NoChat]
  /\ resp = [r \in Slots |-> NoResp]
  /\ trace = [r \in Slots |-> <<>>]
  /\ parsed_invoices = <<>>
  /\ equipment_rates = <<>>
  /\ chat_logs = <<>>
  /\ referrals = <<>>
  /\ rng = 0

serverVars == << req, pc, loc, chat, resp, trace, parsed_invoices,
                 equipment_rates, chat_logs, referrals, rng >>

(***************************************************************************)
(* calculateExpectedAmount called on its own.                              *)
(***************************************************************************)
RateInputs == {Null, Num(0), Num(100), Str("abc"), Str("90")}
WeekInputs == {Null, Num(350), Num(600), Str("")}
MonthInputs == {Null, Num(200), Num(1000), Num(3000)}
DayCounts == {0, 1, 2, 3, 5, 6, 7, 8, 14, 21, 27, 28, 29, 56, 57, -1}
DaysInputs == {Null, Str("10 days"), Str("x")} \cup {Num(k) : k \in DayCounts}

InitCalc ==
  /\ scenario = "calc"
  /\ InitServer
  /\ calcIn \in [dayRate : RateInputs, weekRate : WeekInputs,
                 fourWeekRate : MonthInputs, rentalDays : DaysInputs]
  /\ calcOut = NoCalc

Calculate ==
  /\ ~calcOut.done
  /\ calcOut' = [done |-> TRUE,
                 v |-> calculateExpectedAmount(calcIn.dayRate, calcIn.weekRate,
                                               calcIn.fourWeekRate, calcIn.rentalDays),
                 older |-> calculateExpectedAmountOlder(calcIn.dayRate, calcIn.weekRate,
                                                        calcIn.fourWeekRate,
                                                        calcIn.rentalDays)]
  /\ UNCHANGED << scenario, serverVars, calcIn >>

NextCalc == Calculate

SpecCalc == InitCalc /\ [][NextCalc]_vars

(***************************************************************************)
(* Handlers.  A handler is suspended at each await; one action is the      *)
(* answer of the awaited call together with the code that runs up to the   *)
(* next await (or to the response).                                        *)
(***************************************************************************)
NoAns == [kind |-> "none"]
NoWrite == [table |-> "none"]
Call(op, i, ans, w) == [op |-> op, i |-> i, ans |-> ans, w |-> w]
RespondEntry == Call("respond", 0, NoAns, NoWrite)

Error(status, msg) == [status |-> status, success |-> FALSE, error |-> msg, data |-> NoData]

\* The second run of the replay scenario is given the answers the first run
\* received, call by call.
Replayed(r) == scenario = "twin" /\ r = 2
Answers(r, op, domain) ==
  IF /\ Replayed(r)
     /\ Len(trace[r]) < Len(trace[1])
     /\ trace[1][Len(trace[r]) + 1].op = op
  THEN {trace[1][Len(trace[r]) + 1].ans}
  ELSE domain

ScenarioSlots ==
  CASE scenario \in {"server", "fix"} -> 1..MaxReq
    [] scenario = "twin" -> 1..3
    [] scenario = "calc" -> {}
    [] OTHER -> {1}

\* ---- what the environment may send and answer, per scenario ----

Fee(name, amount) == [name |-> name, amount |-> amount]
FeesObject(entries) == [isObject |-> TRUE, entries |-> entries]
Item(description, amount, day_rate, rental_days) ==
  [isObject |-> TRUE, description |-> description, amount |-> amount,
   day_rate |-> day_rate, week_rate |-> Null, four_week_rate |-> Null,
   rental_days |-> rental_days]
NullItem ==
  [isObject |-> FALSE, description |-> Null, amount |-> Null, day_rate |-> Null,
   week_rate |-> Null, four_week_rate |-> Null, rental_days |-> Null]

FeeNames ==
  {"Delivery Fee", "PICKUP", "fuel_surcharge", "TRANSPORT SURCHARGE",
   "environmental", "Inbound Freight"}
FeeAmounts == {Num(40), Num(0), Num(0 - 15), Str("12 USD"), Null}
FeeEntries == {Fee(nm, a) : nm \in FeeNames, a \in FeeAmounts}

MaxFees == 2
\* Fee objects with at most MaxFees keys, no key twice.
RECURSIVE FeeLists(_)
FeeLists(k) ==
  IF k = 0 THEN {<<>>}
  ELSE LET shorter == FeeLists(k - 1)
       IN  shorter \cup
           {Append(l, e) : l \in {x \in shorter : Len(x) = k - 1},
                           e \in FeeEntries}
DistinctNames(l) == \A i, j \in 1..Len(l) : i # j => l[i].name # l[j].name
FeeObjects == {FeesObject(l) : l \in {x \in FeeLists(MaxFees) : DistinctNames(x)}}

PlainParsed ==
  [NoParsed EXCEPT !.rental_subtotal = Num(200), !.tax = Num(16), !.total = Num(300)]

\* Invoices that differ in their fees object.
FeeInvoices ==
  {[PlainParsed EXCEPT !.fees = f, !.freight = c[1], !.meter_charges = c[2]] :
     f \in FeeObjects, c \in {<<Null, Null>>, <<Num(25), Num(8)>>}}

\* Invoices that differ in their scalar fields.
ScalarInvoices ==
  {[NoParsed EXCEPT !.rental_subtotal = rs, !.freight = fr, !.meter_charges = mc,
                    !.tax = tx, !.total = tx, !.fees = f] :
     rs \in {Null, Num(0), Num(200), Num(0 - 50), Str("n/a")},
     fr \in {Null, Num(0), Num(25), Str("n/a")},
     mc \in {Null, Num(0), Num(8), Num(0 - 8), Str("n/a")},
     tx \in {Null, Num(0), Num(16), Str("n/a")},
     f \in {[isObject |-> FALSE, entries |-> <<>>],
            FeesObject(<< Fee("Delivery Fee", Num(40)), Fee("environmental", Num(9)) >>),
            FeesObject(<< Fee("environmental", Num(8)) >>)}}

\* A complete item; one without description; one priced from its day rate;
\* one with neither amount nor rates; one with rental_days 1; a null entry.
EquipmentItems ==
  {Item(Str("Boom Lift 60ft"), Num(900), Num(100), Num(28)),
   Item(Null, Num(900), Num(100), Num(28)),
   Item(Str("Boom Lift 60ft"), Null, Num(100), Null),
   Item(Str("Boom Lift 60ft"), Null, Null, Num(28)),
   Item(Str("Boom Lift 60ft"), Num(900), Null, Num(1)),
   NullItem}

MaxItems == 2
RECURSIVE ItemLists(_)
ItemLists(k) ==
  IF k = 0 THEN {<<>>}
  ELSE LET shorter == ItemLists(k - 1)
       IN  shorter \cup
           {Append(l, e) : l \in {x \in shorter : Len(x) = k - 1},
                           e \in EquipmentItems}

EquipmentInvoices ==
  {[PlainParsed EXCEPT !.equipment = eq, !.billed_from = d[1], !.billed_through = d[2]] :
     eq \in ItemLists(MaxItems),
     d \in {<<Null, Null>>, <<DateStr(2), DateStr(16)>>}}

\* Items that differ in rental_days, in amount and rates, in description.
DayItems ==
  {Item(Str("Boom Lift 60ft"), Num(900), Num(100), rd) :
     rd \in {Null, Num(0), Num(1), Num(2), Num(0 - 3), Num(28), Str("14 days"),
             Str("n/a")}}
AmountItems ==
  {Item(Str("Boom Lift 60ft"), am, dr, Num(5)) :
     am \in {Null, Num(0), Str("0"), Str("n/a"), Num(0 - 50), Str("12 USD")},
     dr \in {Null, Num(0), Num(100)}}
  \cup {Item(ds, Num(900), Num(100), Num(5)) : ds \in {Null, Str("")}}

RECURSIVE ListsOf(_, _)
ListsOf(items, k) ==
  IF k = 0 THEN {<<>>}
  ELSE LET shorter == ListsOf(items, k - 1)
       IN  shorter \cup
           {Append(l, e) : l \in {x \in shorter : Len(x) = k - 1}, e \in items}

\* billed_from and billed_through: absent, seven days apart in either order,
\* equal, half a day apart, one absent, one not a date.
BilledDates ==
  {<<Null, Null>>, <<DateStr(2), DateStr(16)>>, <<DateStr(16), DateStr(2)>>,
   <<DateStr(2), DateStr(2)>>, <<DateStr(2), DateStr(3)>>, <<DateStr(2), Null>>,
   <<Str("n/a"), DateStr(2)>>}

\* One item over every pair of dates, and lists of items of one invoice.
ItemInvoices ==
  {[PlainParsed EXCEPT !.equipment = << e >>, !.billed_from = d[1],
                       !.billed_through = d[2]] :
     e \in DayItems, d \in BilledDates}
  \cup {[PlainParsed EXCEPT !.equipment = eq, !.billed_from = DateStr(2),
                            !.billed_through = DateStr(16)] :
          eq \in ListsOf(AmountItems \cup {Item(Str("Boom Lift 60ft"), Num(900), Num(100), Num(1))},
                         MaxItems)}

OneItemInvoice ==
  [PlainParsed EXCEPT
     !.equipment = << Item(Str("Boom Lift 60ft"), Num(900), Num(100), Num(28)) >>,
     !.fees = FeesObject(<< Fee("Delivery Fee", Num(40)) >>)]

\* Invoices met by fix-existing-invoices.js: no equipment, an item with its
\* amount, an item priced by its day rate only and without rental_days, and
\* an item without description before one with an amount.
FixInvoices ==
  {PlainParsed, OneItemInvoice,
   [PlainParsed EXCEPT
      !.equipment = << Item(Str("Scissor Lift"), Null, Num(100), Null) >>],
   [PlainParsed EXCEPT
      !.equipment = << Item(Null, Num(50), Null, Null),
                       Item(Str("Boom Lift 60ft"), Num(900), Num(100), Num(28)) >>]}

LlmText(kind, parsed) == [kind |-> kind, parsed |-> parsed]

LlmAnswers ==
  CASE scenario = "fees" ->
         {LlmText("json", p) : p \in FeeInvoices \cup ScalarInvoices}
    [] scenario = "equipment" ->
         {LlmText("json", p) : p \in EquipmentInvoices}
    [] scenario = "twin" -> {LlmText("json", OneItemInvoice)}
    [] scenario = "items" -> {LlmText("json", p) : p \in ItemInvoices}
    [] scenario = "fix" -> {LlmText("json", p) : p \in FixInvoices}
    [] scenario = "inputs" ->
         {LlmText(k, OneItemInvoice) : k \in ContentKinds} \cup {LlmText("throw", NoParsed)}
    [] OTHER ->
         {LlmText("json", OneItemInvoice), LlmText("nobrace", NoParsed),
          LlmText("throw", NoParsed)}

Outcome(kind) == [kind |-> kind]
InsertAnswers ==
  CASE scenario \in {"fees", "items"} -> {Outcome("ok")}
    [] scenario \in {"twin", "fix"} -> {Outcome("ok"), Outcome("error")}
    [] scenario = "inputs" ->
         {Outcome("ok"), Outcome("error"), Outcome("norow"), Outcome("noid"),
          Outcome("throw")}
    [] OTHER -> {Outcome("ok"), Outcome("error"), Outcome("throw")}
ClassifyAnswers ==
  {[kind |-> "rows", equipment_class |-> "boom_lift"],
   [kind |-> "empty", equipment_class |-> ""]}
  \cup (IF scenario = "equipment" THEN {[kind |-> "throw", equipment_class |-> ""]} ELSE {})
SavingsAnswers ==
  {[kind |-> "rows", total_overpaid |-> Num(30)],
   [kind |-> "empty", total_overpaid |-> Null]}
  \cup (IF scenario = "equipment"
        THEN {[kind |-> "rows", total_overpaid |-> Str("n/a")],
              [kind |-> "throw", total_overpaid |-> Null]}
        ELSE {})
RatesAnswers ==
  IF scenario = "equipment" THEN {Outcome("ok"), Outcome("error"), Outcome("throw")}
  ELSE {Outcome("ok")}
UpdateAnswers ==
  CASE scenario \in {"fees", "items"} -> {Outcome("ok")}
    [] scenario = "server" -> {Outcome("ok"), Outcome("throw")}
    [] scenario = "twin" -> {Outcome("ok")}
    [] scenario = "fix" -> {Outcome("ok"), Outcome("error")}
    [] OTHER -> {Outcome("ok"), Outcome("error"), Outcome("throw")}

Request(ver, path, body) == [ver |-> ver, path |-> path, body |-> body]

\* ---- /chat: requests, run statuses, tool calls ----
ChatBody(message, threadId, userId, isLoggedIn) ==
  [hasInput |-> message # "", userId |-> userId, message |-> message,
   threadId |-> threadId, isLoggedIn |-> isLoggedIn]

Args(json, user_id, email) == [json |-> json, user_id |-> user_id, email |-> email]
ToolCall(name, args) == [name |-> name, args |-> args]

SearchCall == ToolCall("search_invoices", Args(TRUE, Null, Null))
SearchOtherUserCall == ToolCall("search_invoices", Args(TRUE, Str("u2"), Null))
DetailsCall == ToolCall("get_invoice_details", Args(TRUE, Null, Null))
SummaryCall == ToolCall("get_savings_summary", Args(TRUE, Null, Null))
GiveawayCall == ToolCall("save_giveaway_entry", Args(TRUE, Null, Str("a@x.io")))
NoEmailCall == ToolCall("save_giveaway_entry", Args(TRUE, Null, Null))
WeatherCall == ToolCall("get_weather", Args(TRUE, Null, Null))
BadArgumentsCall == ToolCall("search_invoices", Args(FALSE, Null, Null))

\* tool_calls as the assistant API returns them: each call with its id.
WithIds(calls) ==
  [k \in 1..Len(calls) |->
     [id |-> k, name |-> calls[k].name, args |-> calls[k].args]]

Batches ==
  {WithIds(<< c >>) :
     c \in {SearchCall, SearchOtherUserCall, DetailsCall, SummaryCall, GiveawayCall,
            NoEmailCall, WeatherCall, BadArgumentsCall}}
  \cup {WithIds(b) :
          b \in {<<>>,
                 << SearchCall, GiveawayCall >>,
                 << DetailsCall, SummaryCall >>,
                 << GiveawayCall, BadArgumentsCall >>,
                 << SearchCall, WeatherCall, SummaryCall >>}}

RunStatus(status, hasToolCalls, toolCalls) ==
  [kind |-> "ok", status |-> status, hasToolCalls |-> hasToolCalls,
   toolCalls |-> toolCalls]

\* The replay scenario and the scenario of single requests keep their runs
\* short: a run asks for tools at most MaxTwinActions times and is never seen
\* in progress.
MaxTwinActions == 1
ShortRuns == scenario \in {"twin", "inputs"}
TwinBatches == {WithIds(<< GiveawayCall >>), WithIds(<< SearchCall >>)}

\* What the retrieve numbered `retrieves` + 1 of a run may answer.
RunAnswers(retrieves) ==
  IF ShortRuns
  THEN {RunStatus("completed", FALSE, <<>>)}
       \cup (IF retrieves < MaxTwinActions
             THEN {RunStatus("requires_action", TRUE, b) : b \in TwinBatches}
             ELSE {})
  ELSE {RunStatus(st, FALSE, <<>>) :
          st \in {"in_progress", "completed", "failed", "cancelled", "requires_action"}}
       \cup {RunStatus("requires_action", TRUE, b) : b \in Batches}
       \cup {[kind |-> "throw", status |-> "", hasToolCalls |-> FALSE,
               toolCalls |-> <<>>]}

OkOrThrow == IF ShortRuns THEN {Outcome("ok")} ELSE {Outcome("ok"), Outcome("throw")}
ThreadAnswers == {[kind |-> "ok", id |-> "thread_new"], [kind |-> "throw", id |-> ""]}
QueryAnswers ==
  IF scenario = "twin" THEN {Outcome("data")}
  ELSE {Outcome("data"), Outcome("error"), Outcome("throw")}
\* referrals holds one row per email: a second insert of an email is
\* refused with error 23505.
ReferralAnswers(email) ==
  (IF \E k \in 1..Len(referrals) : referrals[k].row.email = email
   THEN {Outcome("duplicate")} ELSE {Outcome("ok")})
  \cup (IF ShortRuns THEN {Outcome("error")}
        ELSE {Outcome("error"), Outcome("throw")})
ExistingAnswers ==
  {[kind |-> "row", referral_code |-> "code_old"]}
  \cup (IF ShortRuns THEN {}
        ELSE {[kind |-> "none", referral_code |-> ""],
              [kind |-> "throw", referral_code |-> ""]})
ListAnswers ==
  {[kind |-> "assistant", text |-> "You overpaid."]}
  \cup (IF ShortRuns THEN {}
        ELSE {[kind |-> "assistant", text |-> ""],
              [kind |-> "none", text |-> ""],
              [kind |-> "throw", text |-> ""]})
LogAnswers ==
  IF ShortRuns THEN {Outcome("ok"), Outcome("error")}
  ELSE {Outcome("ok"), Outcome("error"), Outcome("throw")}

ChatRequests ==
  {Request("cur", "/chat", ChatBody("", "", Null, FALSE)),
   Request("cur", "/chat", ChatBody("hi", "", Null, FALSE)),
   Request("cur", "/chat", ChatBody("hi", "thread_7", Str("u1"), TRUE))}

ParseBody(hasInput, userId) ==
  [NoBody EXCEPT !.hasInput = hasInput, !.userId = userId]

Requests ==
  CASE scenario \in {"fees", "equipment", "fix"} ->
         {Request("cur", "/parse-base64", ParseBody(TRUE, Str("u1")))}
    [] scenario = "items" ->
         {Request(v, "/parse-base64", ParseBody(TRUE, Str("u1"))) : v \in {"cur", "old"}}
    [] scenario = "chat" -> ChatRequests
    [] scenario = "twin" ->
         {Request("cur", "/parse-base64", ParseBody(TRUE, Str("u1"))),
          Request("cur", "/chat", ChatBody("hi", "thread_7", Str("u1"), TRUE))}
    [] scenario = "inputs" ->
         {Request(v, p, ParseBody(h, Str("u1"))) :
            v \in {"cur", "old", "p0"}, p \in {"/parse", "/parse-base64"},
            h \in BOOLEAN}
         \cup ChatRequests
         \cup {Request("cur", "/search-invoices", ParseBody(TRUE, u)) :
                 u \in {Null, Str(""), Str("u1")}}
    [] OTHER ->
         {Request(v, "/parse-base64", ParseBody(TRUE, Str("u1"))) :
            v \in {"cur", "old", "p0"}}
         \cup {Request(v, "/parse", ParseBody(TRUE, Null)) : v \in {"cur", "old", "p0"}}
         \cup {Request("cur", "/parse-base64", ParseBody(FALSE, Str("u1"))),
               Request("cur", "/parse", ParseBody(FALSE, Null)),
               Request("old", "/test-db", NoBody)}

\* ---- shared pieces of the actions ----

Goto(r, label) == pc' = [pc EXCEPT ![r] = label]
Finish(r, response, calls) ==
  /\ resp' = [resp EXCEPT ![r] = response]
  /\ pc' = [pc EXCEPT ![r] = "done"]
  /\ trace' = [trace EXCEPT ![r] = @ \o calls \o << RespondEntry >>]
Log(r, calls) == trace' = [trace EXCEPT ![r] = @ \o calls]

\* An HTTP request reaches the server; the slots of the server scenario are
\* taken in order of arrival.  In the replay scenario the second run repeats
\* the first run's request once that run has answered.
Receive(r) ==
  /\ r \in ScenarioSlots
  /\ pc[r] = "idle"
  /\ scenario \in {"server", "fix"} => \A q \in ScenarioSlots : q < r => pc[q] # "idle"
  /\ Replayed(r) => pc[1] = "done"
  /\ \E rq \in (IF Replayed(r) THEN {req[1]} ELSE Requests) :
       req' = [req EXCEPT ![r] = rq]
  /\ Goto(r, "start")
  /\ UNCHANGED << scenario, loc, chat, resp, trace, parsed_invoices,
                  equipment_rates, chat_logs, referrals, rng, calcIn, calcOut >>

dbVars == << parsed_invoices, equipment_rates, chat_logs, referrals >>

ParseStart_NoCheck(r) ==
  /\ pc[r] = "start"
  /\ req[r].path \in {"/parse", "/parse-base64"}
  /\ Goto(r, "llm")
  /\ UNCHANGED << scenario, req, loc, chat, resp, trace, dbVars, rng, calcIn, calcOut >>

\* POST /parse and POST /parse-base64 up to the OpenAI call.
ParseStart(r) ==
  /\ pc[r] = "start"
  /\ req[r].path \in {"/parse", "/parse-base64"}
  /\ IF ~req[r].body.hasInput
     THEN Finish(r, Error(400, IF req[r].path = "/parse" THEN "No file uploaded"
                                                         ELSE "No image provided"), <<>>)
     ELSE Goto(r, "llm") /\ UNCHANGED << resp, trace >>
  /\ UNCHANGED << scenario, req, loc, chat, dbVars, rng, calcIn, calcOut >>

ParseLlmReturn(r, a, call) ==
  IF a.kind = "throw"
  THEN Finish(r, Error(500, "Failed to process invoice"), << call >>)
  ELSE IF ~ParsesAfterFenceStrip(a.kind)
  THEN Finish(r, Error(500, "Failed to parse invoice"), << call >>)
  ELSE Finish(r, [status |-> 200, success |-> TRUE, error |-> "",
                  data |-> [parsed |-> a.parsed]], << call >>)

\* POST /parse: the OpenAI answer, the fence strip, the response.  No table
\* is touched.
ParseLlm(r) ==
  /\ pc[r] = "llm"
  /\ req[r].path = "/parse"
  /\ \E a \in Answers(r, "llm", LlmAnswers) :
       ParseLlmReturn(r, a, Call("llm", 0, a, NoWrite))
  /\ UNCHANGED << scenario, req, loc, chat, dbVars, rng, calcIn, calcOut >>

ParseBase64LlmReturn(r, a, call) ==
  IF a.kind = "throw"
  THEN Finish(r, Error(500, "error.message"), << call >>) /\ UNCHANGED loc
  ELSE IF JsonRepair(a.kind) = "nomatch"
  THEN Finish(r, Error(500, "Could not parse OpenAI response as JSON"), << call >>)
       /\ UNCHANGED loc
  ELSE IF JsonRepair(a.kind) = "throw"
  THEN Finish(r, Error(500, "error.message"), << call >>) /\ UNCHANGED loc
  ELSE /\ loc' = [loc EXCEPT ![r] = [@ EXCEPT !.parsed = a.parsed]]
       /\ Goto(r, "insert")
       /\ Log(r, << call >>)
       /\ UNCHANGED resp

\* POST /parse-base64: the OpenAI answer and the JSON repair; the derived
\* quantities are computed from loc.parsed where they are used.
ParseBase64Llm(r) ==
  /\ pc[r] = "llm"
  /\ req[r].path = "/parse-base64"
  /\ \E a \in Answers(r, "llm", LlmAnswers) :
       ParseBase64LlmReturn(r, a, Call("llm", 0, a, NoWrite))
  /\ UNCHANGED << scenario, req, chat, dbVars, rng, calcIn, calcOut >>

DataOf(ver, dv, l) ==
  IF ver = "cur"
  THEN [parsed |-> l.parsed, id |-> l.invoiceId,
        freight |-> Num(dv.freight), freight_total |-> Num(dv.freight),
        meter_charges |-> Num(dv.meterCharges), fees |-> dv.remainingFees,
        fees_total |-> Num(dv.feesTotal), fee_percentage |-> dv.feePercentage,
        market_savings |-> l.totalMarketSavings,
        equipment_with_rates |-> l.equipmentWithRates]
  ELSE [parsed |-> l.parsed, id |-> l.invoiceId,
        market_savings |-> l.totalMarketSavings,
        equipment_with_rates |-> l.equipmentWithRates]

\* The body of the success response of /parse-base64.
SuccessData(ver, l) == DataOf(ver, Derived(ver, l.parsed), l)

Success(data) == [status |-> 200, success |-> TRUE, error |-> "", data |-> data]

ContinueAt(r, l, nx, calls) ==
  CASE nx.kind = "item" ->
         /\ loc' = [loc EXCEPT ![r] = [l EXCEPT !.idx = nx.idx,
                                                 !.rentalDays = nx.rentalDays,
                                                 !.actualAmount = nx.actualAmount]]
         /\ Goto(r, "classify")
         /\ Log(r, calls)
         /\ UNCHANGED resp
    [] nx.kind = "end" ->
         /\ loc' = [loc EXCEPT ![r] = [l EXCEPT !.idx = nx.idx]]
         /\ Goto(r, "update")
         /\ Log(r, calls)
         /\ UNCHANGED resp
    [] OTHER ->
         /\ loc' = [loc EXCEPT ![r] = l]
         /\ Finish(r, Error(500, "error.message"), calls)

\* The loop continues at item i: the next item that reaches classify_equipment,
\* the update when there is none, the outer catch when an item throws.
Continue(r, l, i, calls) ==
  ContinueAt(r, l, NextItem(req[r].ver, l.parsed.equipment, l.invDays, i), calls)

NewRow(r, cols) ==
  [id |-> Len(parsed_invoices) + 1, by |-> r, cols |-> cols,
   market_savings |-> Null, equipment_with_rates |-> <<>>, saved |-> <<>>]

\* The first version answers success whatever the insert returned.
InsertUnchecked(r, a, call) ==
  IF a.kind = "throw"
  THEN Finish(r, Error(500, "error.message"), << call >>)
  ELSE Finish(r, Success([parsed |-> loc[r].parsed]), << call >>)

InsertChecked_IgnoreError(r, a, call) ==
  IF a.kind = "throw"
  THEN Finish(r, Error(500, "error.message"), << call >>) /\ UNCHANGED loc
  ELSE Continue(r, [loc[r] EXCEPT
                      !.invoiceId = Len(parsed_invoices) + 1,
                      !.invDays = IF req[r].ver = "cur"
                                  THEN invoiceRentalDays(loc[r].parsed) ELSE 0],
                1, << call >>)

InsertChecked_ErrorOnly(r, a, call) ==
  IF a.kind = "throw"
  THEN Finish(r, Error(500, "error.message"), << call >>) /\ UNCHANGED loc
  ELSE IF a.kind = "error"
  THEN Finish(r, Error(500, "Failed to insert invoice"), << call >>) /\ UNCHANGED loc
  ELSE Continue(r, [loc[r] EXCEPT
                      !.invoiceId = Len(parsed_invoices) + 1,
                      !.invDays = IF req[r].ver = "cur"
                                  THEN invoiceRentalDays(loc[r].parsed) ELSE 0],
                1, << call >>)

\* Both copies in index.js stop at a failed insert:
\* insertError || !insertData || !insertData.id.
InsertChecked(r, a, call) ==
  IF a.kind = "throw"
  THEN Finish(r, Error(500, "error.message"), << call >>) /\ UNCHANGED loc
  ELSE IF a.kind \in {"error", "norow", "noid"}
  THEN Finish(r, Error(500, "Failed to insert invoice"), << call >>) /\ UNCHANGED loc
  ELSE Continue(r, [loc[r] EXCEPT
                      !.invoiceId = Len(parsed_invoices) + 1,
                      !.invDays = IF req[r].ver = "cur"
                                  THEN invoiceRentalDays(loc[r].parsed) ELSE 0],
                1, << call >>)

AfterInsert(r, a, call) ==
  IF req[r].ver = "p0"
  THEN InsertUnchecked(r, a, call) /\ UNCHANGED loc
  ELSE InsertChecked(r, a, call)

InsertReturn(r, a, cols) ==
  /\ parsed_invoices' = IF a.kind = "ok"
                        THEN Append(parsed_invoices, NewRow(r, cols))
                        ELSE parsed_invoices
  /\ AfterInsert(r, a, Call("insert", 0, a, [table |-> "parsed_invoices", row |-> cols]))

\* parsed_invoices.insert(...) returns.
ParseBase64Insert(r) ==
  /\ pc[r] = "insert"
  /\ \E a \in Answers(r, "insert", InsertAnswers) :
       InsertReturn(r, a, InvoiceRow(req[r].ver, loc[r].parsed, req[r].body.userId))
  /\ UNCHANGED << scenario, req, chat, equipment_rates, chat_logs, referrals,
                  rng, calcIn, calcOut >>

ClassifyReturn_SavingsAnyway(r, a, call) ==
  /\ loc' = [loc EXCEPT ![r] = [@ EXCEPT !.equipment_class = a.equipment_class]]
  /\ Goto(r, "savings")
  /\ Log(r, << call >>)
  /\ UNCHANGED resp

ClassifyReturn(r, a, call) ==
  IF a.kind = "rows"
  THEN /\ loc' = [loc EXCEPT ![r] = [@ EXCEPT !.equipment_class = a.equipment_class]]
       /\ Goto(r, "savings")
       /\ Log(r, << call >>)
       /\ UNCHANGED resp
  ELSE Continue(r, loc[r], loc[r].idx + 1, << call >>)

\* rpc('classify_equipment') returns.
ParseBase64Classify(r) ==
  /\ pc[r] = "classify"
  /\ \E a \in Answers(r, "classify_equipment", ClassifyAnswers) :
       ClassifyReturn(r, a, Call("classify_equipment", loc[r].idx, a, NoWrite))
  /\ UNCHANGED << scenario, req, chat, dbVars, rng, calcIn, calcOut >>

RatedItem(l, a) ==
  [idx |-> l.idx, item |-> l.parsed.equipment[l.idx],
   calculated_amount |-> l.actualAmount, equipment_class |-> l.equipment_class,
   total_overpaid |-> a.total_overpaid]

\* totalMarketSavings kept at module level: it starts from the total the
\* last finished request left behind.
LastSavedTotal ==
  IF \E k \in 1..Len(parsed_invoices) : parsed_invoices[k].saved # <<>>
  THEN parsed_invoices[CHOOSE k \in 1..Len(parsed_invoices) :
                         /\ parsed_invoices[k].saved # <<>>
                         /\ \A j \in 1..Len(parsed_invoices) :
                              parsed_invoices[j].saved # <<>> => j <= k].market_savings.n
  ELSE 0

Accumulate_KeptAcrossRequests(l, a) ==
  [l EXCEPT !.totalMarketSavings =
              (IF l.equipmentWithRates = <<>> THEN LastSavedTotal ELSE @)
                + OrElse(parseFloat(a.total_overpaid), 0),
            !.equipmentWithRates = Append(@, RatedItem(l, a))]

Accumulate_CountOnly(l, a) ==
  [l EXCEPT !.totalMarketSavings = @ + 1,
            !.equipmentWithRates = Append(@, RatedItem(l, a))]

\* totalMarketSavings += parseFloat(savings.total_overpaid) || 0, and the push.
Accumulate(l, a) ==
  [l EXCEPT !.totalMarketSavings = @ + OrElse(parseFloat(a.total_overpaid), 0),
            !.equipmentWithRates = Append(@, RatedItem(l, a))]

SavingsReturn(r, a, call) ==
  IF a.kind = "rows"
  THEN /\ loc' = [loc EXCEPT ![r] = Accumulate(loc[r], a)]
       /\ Goto(r, "rates")
       /\ Log(r, << call >>)
       /\ UNCHANGED resp
  ELSE Continue(r, loc[r], loc[r].idx + 1, << call >>)

\* rpc('calculate_savings') returns.
ParseBase64Savings(r) ==
  /\ pc[r] = "savings"
  /\ \E a \in Answers(r, "calculate_savings", SavingsAnswers) :
       SavingsReturn(r, a, Call("calculate_savings", loc[r].idx, a,
                                [table |-> "rpc",
                                 p_equipment_class |-> loc[r].equipment_class,
                                 p_actual_amount |-> loc[r].actualAmount,
                                 p_rental_days |-> loc[r].rentalDays]))
  /\ UNCHANGED << scenario, req, chat, dbVars, rng, calcIn, calcOut >>

RatesRow(r) ==
  [invoice_id |-> loc[r].invoiceId, user_id |-> req[r].body.userId,
   equipment_description |-> loc[r].parsed.equipment[loc[r].idx].description,
   equipment_class |-> loc[r].equipment_class, rental_days |-> loc[r].rentalDays]

RatesReturn(r, a, row) ==
  /\ equipment_rates' = IF a.kind = "ok" THEN Append(equipment_rates, row)
                        ELSE equipment_rates
  /\ Continue(r, loc[r], loc[r].idx + 1,
              << Call("rates_insert", loc[r].idx, a,
                      [table |-> "equipment_rates", row |-> row]) >>)

\* equipment_rates.insert(...) returns; its result is not looked at, and a
\* throw is caught by the inner try.
ParseBase64Rates(r) ==
  /\ pc[r] = "rates"
  /\ \E a \in Answers(r, "rates_insert", RatesAnswers) : RatesReturn(r, a, RatesRow(r))
  /\ UNCHANGED << scenario, req, chat, parsed_invoices, chat_logs, referrals,
                  rng, calcIn, calcOut >>

UpdateTarget_AllRowsOfUser(r, row) == row.cols.user_id = req[r].body.userId

\* .eq('id', invoiceId)
UpdateTarget(r, row) == row.id = loc[r].invoiceId

UpdateReturn(r, a, call) ==
  /\ parsed_invoices' =
       IF a.kind = "ok"
       THEN [k \in 1..Len(parsed_invoices) |->
               IF UpdateTarget(r, parsed_invoices[k])
               THEN [parsed_invoices[k] EXCEPT
                       !.market_savings = Num(loc[r].totalMarketSavings),
                       !.equipment_with_rates = loc[r].equipmentWithRates,
                       !.saved = Append(@, r)]
               ELSE parsed_invoices[k]]
       ELSE parsed_invoices
  /\ IF a.kind = "throw"
     THEN Finish(r, Error(500, "error.message"), << call >>)
     ELSE Finish(r, Success(SuccessData(req[r].ver, loc[r])), << call >>)

\* parsed_invoices.update(...).eq('id', invoiceId) returns, then the response.
ParseBase64Update(r) ==
  /\ pc[r] = "update"
  /\ \E a \in Answers(r, "update", UpdateAnswers) :
       UpdateReturn(r, a, Call("update", 0, a,
                               [table |-> "parsed_invoices", id |-> loc[r].invoiceId,
                                market_savings |-> loc[r].totalMarketSavings,
                                equipment_with_rates |-> loc[r].equipmentWithRates]))
  /\ UNCHANGED << scenario, req, loc, chat, equipment_rates, chat_logs, referrals,
                  rng, calcIn, calcOut >>

TestRow ==
  [InvoiceRow("old", NoParsed, Null) EXCEPT !.total = Num(100)]

TestDbReturn(r, a, call) ==
  /\ parsed_invoices' = IF a.kind = "ok"
                        THEN Append(parsed_invoices, NewRow(r, TestRow))
                        ELSE parsed_invoices
  /\ IF a.kind = "ok"
     THEN Finish(r, Success(NoData), << call >>)
     ELSE Finish(r, Error(500, "error"), << call >>)

\* GET /test-db of the earlier copy: it inserts a test row and answers.
TestDb(r) ==
  /\ pc[r] = "start"
  /\ req[r].path = "/test-db"
  /\ \E a \in Answers(r, "insert", InsertAnswers) :
       TestDbReturn(r, a, Call("insert", 0, a,
                               [table |-> "parsed_invoices", row |-> TestRow]))
  /\ UNCHANGED << scenario, req, loc, chat, equipment_rates, chat_logs, referrals,
                  rng, calcIn, calcOut >>

\* POST /search-invoices up to the select of searchInvoices.
SearchInvoicesStart(r) ==
  /\ pc[r] = "start"
  /\ req[r].path = "/search-invoices"
  /\ IF ~Truthy(req[r].body.userId)
     THEN Finish(r, Error(401, "User ID required"), <<>>)
     ELSE Goto(r, "search") /\ UNCHANGED << resp, trace >>
  /\ UNCHANGED << scenario, req, loc, chat, dbVars, rng, calcIn, calcOut >>

\* res.json(result): searchInvoices turns an error and a throw of the query
\* into its result.
SearchInvoicesResponse(kind) ==
  [status |-> 200, success |-> FALSE, error |-> "",
   data |-> [invoices |-> kind = "data", error |-> kind # "data"]]

\* The select of searchInvoices returns, then the response.
SearchInvoicesSelect(r) ==
  /\ pc[r] = "search"
  /\ \E a \in Answers(r, "select", QueryAnswers) :
       Finish(r, SearchInvoicesResponse(a.kind),
              << Call("select", 0, a,
                      [table |-> "parsed_invoices", user_id |-> req[r].body.userId]) >>)
  /\ UNCHANGED << scenario, req, loc, chat, dbVars, rng, calcIn, calcOut >>

ParseStep(r) ==
  \/ Receive(r)
  \/ ParseStart(r)
  \/ ParseLlm(r)
  \/ ParseBase64Llm(r)
  \/ ParseBase64Insert(r)
  \/ ParseBase64Classify(r)
  \/ ParseBase64Savings(r)
  \/ ParseBase64Rates(r)
  \/ ParseBase64Update(r)

(***************************************************************************)
(* POST /chat.                                                             *)
(***************************************************************************)
maxAttempts == 60

\* A row of referrals or chat_logs, with the request that inserted it.
Stored(row, r) == [row |-> row, by |-> r]

\* Math.random(): the generator's state is the process's, shared by all
\* requests; each draw advances it.
RngPeriod == 2
ReferralCode(k) == IF k = 0 THEN "code_0" ELSE IF k = 1 THEN "code_1" ELSE "code_n"

\* The history records the calls of every scenario but the long polling
\* loops of the chat scenario.
Record(calls) == IF scenario = "chat" THEN <<>> ELSE calls

ChatFailed == [status |-> 500, success |-> FALSE, error |-> "Chat failed", data |-> NoData]
ChatError(status, msg) ==
  [status |-> status, success |-> FALSE, error |-> msg, data |-> NoData]

\* a || b
OrValue(a, b) == IF Truthy(a) THEN a ELSE b

ReadTools == {"search_invoices", "get_invoice_details", "get_savings_summary"}

\* The helper each branch of the dispatch calls.
HelperOf(name) ==
  CASE name = "search_invoices" -> "searchInvoices"
    [] name = "get_invoice_details" -> "getInvoiceDetails"
    [] name = "get_savings_summary" -> "getSavingsSummary"
    [] OTHER -> "saveGiveawayEntry"

\* What a helper returns, as far as JSON.stringify shows it: the helper, the
\* kind of result, the user_id it filtered on, the referral code.
Result(fn, kind, userId, code) == [fn |-> fn, kind |-> kind, userId |-> userId, code |-> code]
ToolOutput(toolCall, result) == [tool_call_id |-> toolCall.id, output |-> result]

ToolStep(kind, i, outputs) == [kind |-> kind, i |-> i, outputs |-> outputs]

\* The for-loop over toolCalls from call i on, up to the next await that
\* reaches the database: "query" (a read helper's select), "giveaway" (the
\* referrals insert), "submit" (the loop is over) or "throw" (JSON.parse).
RECURSIVE NextTool(_, _, _, _)
NextTool(toolCalls, userId, i, outputs) ==
  IF i > Len(toolCalls) THEN ToolStep("submit", i, outputs)
  ELSE IF ~toolCalls[i].args.json THEN ToolStep("throw", i, outputs)
  ELSE IF toolCalls[i].name \in ReadTools
  THEN IF Truthy(OrValue(toolCalls[i].args.user_id, userId))
       THEN ToolStep("query", i, outputs)
       ELSE NextTool(toolCalls, userId, i + 1,
              Append(outputs,
                ToolOutput(toolCalls[i],
                  Result(HelperOf(toolCalls[i].name), "User not logged in", Null, ""))))
  ELSE IF toolCalls[i].name = "save_giveaway_entry"
  THEN IF Truthy(toolCalls[i].args.email)
       THEN ToolStep("giveaway", i, outputs)
       ELSE NextTool(toolCalls, userId, i + 1,
              Append(outputs,
                ToolOutput(toolCalls[i],
                  Result("saveGiveawayEntry", "Email is required", Null, ""))))
  ELSE NextTool(toolCalls, userId, i + 1, outputs)

\* The handler moves to the await that step nx names.
ToolsAt(r, c, nx, calls) ==
  CASE nx.kind = "query" ->
         /\ chat' = [chat EXCEPT ![r] = [c EXCEPT !.ti = nx.i, !.toolOutputs = nx.outputs]]
         /\ Goto(r, "tool")
         /\ Log(r, Record(calls))
         /\ UNCHANGED << resp, rng >>
    [] nx.kind = "giveaway" ->
         /\ chat' = [chat EXCEPT ![r] = [c EXCEPT !.ti = nx.i, !.toolOutputs = nx.outputs,
                                                  !.referralCode = ReferralCode(rng)]]
         /\ rng' = (rng + 1) % RngPeriod
         /\ Goto(r, "giveaway")
         /\ Log(r, Record(calls))
         /\ UNCHANGED resp
    [] nx.kind = "submit" ->
         /\ chat' = [chat EXCEPT ![r] = [c EXCEPT !.ti = nx.i, !.toolOutputs = nx.outputs]]
         /\ Goto(r, "submit")
         /\ Log(r, Record(calls))
         /\ UNCHANGED << resp, rng >>
    [] OTHER ->
         /\ chat' = [chat EXCEPT ![r] = c]
         /\ Finish(r, ChatFailed, Record(calls))
         /\ UNCHANGED rng

\* The result of tool call c.ti is pushed and the for-loop goes on.
PushOutput(r, c, result, calls) ==
  ToolsAt(r, c,
          NextTool(c.toolCalls, req[r].body.userId, c.ti + 1,
                   Append(c.toolOutputs, ToolOutput(c.toolCalls[c.ti], result))),
          calls)

\* POST /chat up to its first await.
ChatStart(r) ==
  /\ pc[r] = "start"
  /\ req[r].path = "/chat"
  /\ IF req[r].body.message = ""
     THEN /\ Finish(r, ChatError(400, "No message provided"), <<>>)
          /\ UNCHANGED chat
     ELSE IF req[r].body.threadId # ""
     THEN /\ chat' = [chat EXCEPT ![r].threadId = req[r].body.threadId]
          /\ Goto(r, "message")
          /\ UNCHANGED << resp, trace >>
     ELSE /\ Goto(r, "thread")
          /\ UNCHANGED << chat, resp, trace >>
  /\ UNCHANGED << scenario, req, loc, dbVars, rng, calcIn, calcOut >>

ThreadReturn(r, a, call) ==
  IF a.kind = "throw"
  THEN Finish(r, ChatFailed, Record(<< call >>)) /\ UNCHANGED chat
  ELSE /\ chat' = [chat EXCEPT ![r].threadId = a.id]
       /\ Goto(r, "message")
       /\ Log(r, Record(<< call >>))
       /\ UNCHANGED resp

\* openai.beta.threads.create() returns.
ChatThread(r) ==
  /\ pc[r] = "thread"
  /\ \E a \in Answers(r, "threads.create", ThreadAnswers) :
       ThreadReturn(r, a, Call("threads.create", 0, a, NoWrite))
  /\ UNCHANGED << scenario, req, loc, dbVars, rng, calcIn, calcOut >>

PlainReturn(r, a, call, label) ==
  IF a.kind = "throw"
  THEN Finish(r, ChatFailed, Record(<< call >>))
  ELSE Goto(r, label) /\ Log(r, Record(<< call >>)) /\ UNCHANGED resp

\* openai.beta.threads.messages.create(...) returns.
ChatMessage(r) ==
  /\ pc[r] = "message"
  /\ \E a \in Answers(r, "messages.create", OkOrThrow) :
       PlainReturn(r, a, Call("messages.create", 0, a,
                              [table |-> "thread", thread |-> chat[r].threadId,
                               loggedIn |-> req[r].body.isLoggedIn,
                               message |-> req[r].body.message]), "run")
  /\ UNCHANGED << scenario, req, loc, chat, dbVars, rng, calcIn, calcOut >>

\* openai.beta.threads.runs.create(...) returns.
ChatRun(r) ==
  /\ pc[r] = "run"
  /\ \E a \in Answers(r, "runs.create", OkOrThrow) :
       PlainReturn(r, a, Call("runs.create", 0, a, NoWrite), "retrieve")
  /\ UNCHANGED << scenario, req, loc, chat, dbVars, rng, calcIn, calcOut >>

\* The head of the while loop with runStatus and attempts as in c, down to
\* the next await.
LoopHead(r, c, calls) ==
  IF c.status = "completed" \/ c.attempts >= maxAttempts
  THEN IF c.attempts >= maxAttempts
       THEN /\ chat' = [chat EXCEPT ![r] = c]
            /\ Finish(r, ChatError(500, "Assistant timed out"), Record(calls))
            /\ UNCHANGED rng
       ELSE /\ chat' = [chat EXCEPT ![r] = c]
            /\ Goto(r, "list")
            /\ Log(r, Record(calls))
            /\ UNCHANGED << resp, rng >>
  ELSE IF c.status \in {"failed", "cancelled"}
  THEN /\ chat' = [chat EXCEPT ![r] = c]
       /\ Finish(r, [ChatError(500, "Assistant run failed") EXCEPT
                        !.data = [status |-> c.status]], Record(calls))
       /\ UNCHANGED rng
  ELSE IF c.status = "requires_action" /\ c.hasToolCalls
  THEN ToolsAt(r, c, NextTool(c.toolCalls, req[r].body.userId, 1, <<>>), calls)
  ELSE /\ chat' = [chat EXCEPT ![r] = c]
       /\ Goto(r, "retrieve")
       /\ Log(r, Record(calls))
       /\ UNCHANGED << resp, rng >>

Retrieved_NoCount(c, a) ==
  [c EXCEPT !.status = a.status, !.hasToolCalls = a.hasToolCalls,
            !.toolCalls = a.toolCalls, !.toolOutputs = <<>>, !.ti = 0,
            !.referralCode = "", !.retrieves = @ + 1]

\* runStatus = await ...runs.retrieve(...): before the loop, and at the end
\* of a turn of the loop followed by attempts++.
Retrieved(c, a) ==
  [c EXCEPT !.status = a.status, !.hasToolCalls = a.hasToolCalls,
            !.toolCalls = a.toolCalls, !.toolOutputs = <<>>, !.ti = 0,
            !.referralCode = "",
            !.attempts = IF c.retrieves = 0 THEN 0 ELSE @ + 1,
            !.retrieves = @ + 1]

RetrieveReturn(r, a, call) ==
  IF a.kind = "throw"
  THEN /\ chat' = [chat EXCEPT ![r].retrieves = @ + 1]
       /\ Finish(r, ChatFailed, Record(<< call >>))
       /\ UNCHANGED rng
  ELSE LoopHead(r, Retrieved(chat[r], a), << call >>)

\* openai.beta.threads.runs.retrieve(...) returns: the one before the loop,
\* or the one at the end of a turn of the loop, after the one-second sleep.
ChatRetrieve(r) ==
  /\ pc[r] = "retrieve"
  /\ \E a \in Answers(r, "runs.retrieve", RunAnswers(chat[r].retrieves)) :
       RetrieveReturn(r, a, Call("runs.retrieve", 0, a, NoWrite))
  /\ UNCHANGED << scenario, req, loc, dbVars, calcIn, calcOut >>

QueryResult(fn, a, userId) ==
  Result(fn, IF a.kind = "data" THEN "data" ELSE "error", userId, "")

\* The select of searchInvoices, getInvoiceDetails or getSavingsSummary
\* returns; the helper returns and its result is pushed.
ChatTool(r) ==
  /\ pc[r] = "tool"
  /\ \E a \in Answers(r, "select", QueryAnswers) :
       PushOutput(r, chat[r],
         QueryResult(HelperOf(chat[r].toolCalls[chat[r].ti].name), a,
                     OrValue(chat[r].toolCalls[chat[r].ti].args.user_id,
                             req[r].body.userId)),
         << Call("select", chat[r].ti, a,
                 [table |-> "parsed_invoices",
                  user_id |-> OrValue(chat[r].toolCalls[chat[r].ti].args.user_id,
                                      req[r].body.userId)]) >>)
  /\ UNCHANGED << scenario, req, loc, dbVars, calcIn, calcOut >>

ReferralRow(r) ==
  [email |-> chat[r].toolCalls[chat[r].ti].args.email,
   referral_code |-> chat[r].referralCode]

GiveawayReturn(r, a, call) ==
  /\ referrals' = IF a.kind = "ok" THEN Append(referrals, Stored(ReferralRow(r), r))
                  ELSE referrals
  /\ IF a.kind = "duplicate"
     THEN /\ Goto(r, "existing")
          /\ Log(r, Record(<< call >>))
          /\ UNCHANGED << chat, resp, rng >>
     ELSE PushOutput(r, chat[r],
            IF a.kind = "ok"
            THEN Result("saveGiveawayEntry", "success", Null, chat[r].referralCode)
            ELSE Result("saveGiveawayEntry", "error", Null, ""),
            << call >>)

\* saveGiveawayEntry: the referrals insert returns.
ChatGiveaway(r) ==
  /\ pc[r] = "giveaway"
  /\ \E a \in Answers(r, "referrals.insert",
                  ReferralAnswers(chat[r].toolCalls[chat[r].ti].args.email)) :
       GiveawayReturn(r, a, Call("referrals.insert", chat[r].ti, a,
                                 [table |-> "referrals", row |-> ReferralRow(r)]))
  /\ UNCHANGED << scenario, req, loc, parsed_invoices, equipment_rates, chat_logs,
                  calcIn, calcOut >>

ExistingResult(a) ==
  IF a.kind = "throw" THEN Result("saveGiveawayEntry", "error", Null, "")
  ELSE Result("saveGiveawayEntry", "Already registered", Null, a.referral_code)

\* saveGiveawayEntry, after error 23505: the select of the existing row returns.
ChatGiveawayExisting(r) ==
  /\ pc[r] = "existing"
  /\ \E a \in Answers(r, "referrals.select", ExistingAnswers) :
       PushOutput(r, chat[r], ExistingResult(a),
                  << Call("referrals.select", chat[r].ti, a, NoWrite) >>)
  /\ UNCHANGED << scenario, req, loc, dbVars, calcIn, calcOut >>

Submitted(c) ==
  [c EXCEPT !.toolOutputs = <<>>, !.toolCalls = <<>>, !.hasToolCalls = FALSE,
            !.ti = 0, !.referralCode = ""]

SubmitReturn(r, a, call) ==
  IF a.kind = "throw"
  THEN Finish(r, ChatFailed, Record(<< call >>)) /\ UNCHANGED chat
  ELSE /\ chat' = [chat EXCEPT ![r] = Submitted(chat[r])]
       /\ Goto(r, "retrieve")
       /\ Log(r, Record(<< call >>))
       /\ UNCHANGED resp

\* submitToolOutputs(...) returns; then the sleep and the next retrieve.
ChatSubmit(r) ==
  /\ pc[r] = "submit"
  /\ \E a \in Answers(r, "submitToolOutputs", OkOrThrow) :
       SubmitReturn(r, a, Call("submitToolOutputs", 0, a,
                               [table |-> "run", tool_outputs |-> chat[r].toolOutputs]))
  /\ UNCHANGED << scenario, req, loc, dbVars, rng, calcIn, calcOut >>

ListReturn(r, a, call) ==
  IF a.kind = "throw"
  THEN Finish(r, ChatFailed, Record(<< call >>)) /\ UNCHANGED chat
  ELSE IF a.kind = "none"
  THEN Finish(r, ChatError(500, "No response from assistant"), Record(<< call >>))
       /\ UNCHANGED chat
  ELSE /\ chat' = [chat EXCEPT ![r].text = a.text]
       /\ Goto(r, "log")
       /\ Log(r, Record(<< call >>))
       /\ UNCHANGED resp

\* openai.beta.threads.messages.list(...) returns.
ChatList(r) ==
  /\ pc[r] = "list"
  /\ \E a \in Answers(r, "messages.list", ListAnswers) :
       ListReturn(r, a, Call("messages.list", 0, a, NoWrite))
  /\ UNCHANGED << scenario, req, loc, dbVars, rng, calcIn, calcOut >>

ChatLogRow(r) ==
  [user_id |-> req[r].body.userId, thread_id |-> chat[r].threadId,
   user_message |-> req[r].body.message, assistant_response |-> chat[r].text,
   is_logged_in |-> req[r].body.isLoggedIn,
   mode |-> IF req[r].body.isLoggedIn THEN "dashboard" ELSE "landing"]

ChatSuccess(r) ==
  [status |-> 200, success |-> TRUE, error |-> "",
   data |-> [response |-> chat[r].text, threadId |-> chat[r].threadId]]

LogReturn(r, a, call) ==
  /\ chat_logs' = IF a.kind = "ok" THEN Append(chat_logs, Stored(ChatLogRow(r), r))
                  ELSE chat_logs
  /\ IF a.kind = "throw"
     THEN Finish(r, ChatFailed, Record(<< call >>))
     ELSE Finish(r, ChatSuccess(r), Record(<< call >>))

\* chat_logs.insert(...) returns (its result is not looked at), then the answer.
ChatLog(r) ==
  /\ pc[r] = "log"
  /\ \E a \in Answers(r, "chat_logs.insert", LogAnswers) :
       LogReturn(r, a, Call("chat_logs.insert", 0, a,
                            [table |-> "chat_logs", row |-> ChatLogRow(r)]))
  /\ UNCHANGED << scenario, req, loc, chat, parsed_invoices, equipment_rates,
                  referrals, rng, calcIn, calcOut >>

ChatStep(r) ==
  \/ ChatStart(r)
  \/ ChatThread(r)
  \/ ChatMessage(r)
  \/ ChatRun(r)
  \/ ChatRetrieve(r)
  \/ ChatTool(r)
  \/ ChatGiveaway(r)
  \/ ChatGiveawayExisting(r)
  \/ ChatSubmit(r)
  \/ ChatList(r)
  \/ ChatLog(r)

(***************************************************************************)
(* fix-existing-invoices.js.  fixExistingInvoices runs as one more process *)
(* beside the server's handlers, in a slot of its own.  Its locals are     *)
(* kept in the slot's loc: invoices (the rows fetched), inv (the index of  *)
(* the invoice in hand), invoiceId (invoice.id), parsed.equipment          *)
(* (invoice.equipment), idx (the item in hand), and the loop's variables   *)
(* under their own names.  Amounts are kept over the denominator 20, as in *)
(* the handlers.                                                           *)
(***************************************************************************)
FetchAnswers == {Outcome("data"), Outcome("error")}
FixUpdateAnswers == {Outcome("ok"), Outcome("error")}

\* .select('*').is('market_savings', null): the rows as they are when the
\* select is answered.
NullSavingsRows ==
  SelectSeq(parsed_invoices, LAMBDA row : row.market_savings = Null)

\* if (day > 0) day * rentalDays; else if (week > 0) week * ceil(rentalDays / 7);
\* else if (month > 0) month * ceil(rentalDays / 28)
FixFromRates(day, week, month, rentalDays) ==
  IF day > 0 THEN day * rentalDays
  ELSE IF week > 0 THEN week * CeilDiv(rentalDays, 7)
  ELSE IF month > 0 THEN month * CeilDiv(rentalDays, 28)
  ELSE 0

FixAmountOr(amount, item, rentalDays) ==
  IF amount = 0
  THEN 20 * FixFromRates(OrElse(parseFloat(item.day_rate), 0),
                         OrElse(parseFloat(item.week_rate), 0),
                         OrElse(parseFloat(item.four_week_rate), 0), rentalDays)
  ELSE 20 * amount

\* if (!item.description) continue; ... if (actualAmount === 0) continue;
\* The script's loop from item i up to the first item that reaches its
\* classify_equipment: "item", "end" when the list is exhausted, "throw"
\* when an item that is not an object is dereferenced (outside the try).
RECURSIVE FixNextItem(_, _)
FixSkipOrStop(equipment, i, rentalDays, actualAmount) ==
  IF ~Truthy(equipment[i].description) \/ actualAmount = 0
  THEN FixNextItem(equipment, i + 1)
  ELSE LoopResult("item", i, rentalDays, actualAmount)

\* actualAmount = parseFloat(item.amount) || 0 and
\* rentalDays = parseInt(item.rental_days) || 1
FixNextItem(equipment, i) ==
  IF i > Len(equipment) THEN LoopResult("end", i, 0, 0)
  ELSE IF ~equipment[i].isObject THEN LoopResult("throw", i, 0, 0)
  ELSE FixSkipOrStop(equipment, i, OrElse(parseInt(equipment[i].rental_days), 1),
                     FixAmountOr(OrElse(parseFloat(equipment[i].amount), 0),
                                 equipment[i],
                                 OrElse(parseInt(equipment[i].rental_days), 1)))

\* The script stops: after the last invoice, after a failed fetch, or on an
\* exception that nothing catches.
FixEnd(r, l, calls) ==
  /\ loc' = [loc EXCEPT ![r] = l]
  /\ Goto(r, "done")
  /\ Log(r, calls)

FixContinueAt(r, l, nx, calls) ==
  CASE nx.kind = "item" ->
         /\ loc' = [loc EXCEPT ![r] = [l EXCEPT !.idx = nx.idx,
                                                 !.rentalDays = nx.rentalDays,
                                                 !.actualAmount = nx.actualAmount]]
         /\ Goto(r, "fix_classify")
         /\ Log(r, calls)
    [] nx.kind = "end" ->
         /\ loc' = [loc EXCEPT ![r] = [l EXCEPT !.idx = nx.idx]]
         /\ Goto(r, "fix_update")
         /\ Log(r, calls)
    [] OTHER -> FixEnd(r, l, calls)

\* The inner loop continues at item i of the invoice in hand.
FixContinue(r, l, i, calls) ==
  FixContinueAt(r, l, FixNextItem(l.parsed.equipment, i), calls)

\* The body of the outer loop for one fetched invoice, up to its first await.
FixInvoice(r, l, j, invoice, calls) ==
  IF invoice.cols.equipment = <<>>
  THEN /\ loc' = [loc EXCEPT ![r] =
                    [l EXCEPT !.inv = j, !.invoiceId = invoice.id,
                              !.parsed = [NoParsed EXCEPT !.equipment = <<>>],
                              !.idx = 0, !.totalMarketSavings = 0,
                              !.equipmentWithRates = <<>>]]
       /\ Goto(r, "fix_update_empty")
       /\ Log(r, calls)
  ELSE FixContinue(r, [l EXCEPT !.inv = j, !.invoiceId = invoice.id,
                                !.parsed = [NoParsed EXCEPT
                                              !.equipment = invoice.cols.equipment],
                                !.totalMarketSavings = 0,
                                !.equipmentWithRates = <<>>],
                   1, calls)

\* for (const invoice of invoices), at the invoice numbered j.
FixInvoiceAt(r, l, j, calls) ==
  IF j > Len(l.invoices) THEN FixEnd(r, l, calls)
  ELSE FixInvoice(r, l, j, l.invoices[j], calls)

FixFetchReturn(r, a, rows, call) ==
  IF a.kind = "error"
  THEN FixEnd(r, loc[r], << call >>)
  ELSE FixInvoiceAt(r, [loc[r] EXCEPT !.invoices = rows], 1, << call >>)

\* The script is started and its select returns.
FixFetch(r) ==
  /\ scenario = "fix"
  /\ pc[r] = "idle"
  /\ \E a \in FetchAnswers :
       FixFetchReturn(r, a, NullSavingsRows,
                      Call("select", 0, a, [table |-> "parsed_invoices"]))
  /\ UNCHANGED << scenario, req, chat, resp, dbVars, rng, calcIn, calcOut >>

\* .update({market_savings, equipment_with_rates}).eq('id', invoice.id)
FixWrite(r, a, id, market_savings, equipment_with_rates) ==
  parsed_invoices' =
    IF a.kind = "ok"
    THEN [k \in 1..Len(parsed_invoices) |->
            IF parsed_invoices[k].id = id
            THEN [parsed_invoices[k] EXCEPT
                    !.market_savings = Num(market_savings),
                    !.equipment_with_rates = equipment_with_rates,
                    !.saved = Append(@, r)]
            ELSE parsed_invoices[k]]
    ELSE parsed_invoices

FixUpdateCall(l, a, market_savings, equipment_with_rates) ==
  Call("update", 0, a,
       [table |-> "parsed_invoices", id |-> l.invoiceId,
        market_savings |-> market_savings,
        equipment_with_rates |-> equipment_with_rates])

\* The update of an invoice without equipment returns; `continue`.
FixUpdateEmpty(r) ==
  /\ pc[r] = "fix_update_empty"
  /\ \E a \in FixUpdateAnswers :
       /\ FixWrite(r, a, loc[r].invoiceId, 0, <<>>)
       /\ FixInvoiceAt(r, loc[r], loc[r].inv + 1,
                       << FixUpdateCall(loc[r], a, 0, <<>>) >>)
  /\ UNCHANGED << scenario, req, chat, resp, equipment_rates, chat_logs, referrals,
                  rng, calcIn, calcOut >>

FixClassifyReturn(r, a, call) ==
  IF a.kind = "rows"
  THEN /\ loc' = [loc EXCEPT ![r] = [@ EXCEPT !.equipment_class = a.equipment_class]]
       /\ Goto(r, "fix_savings")
       /\ Log(r, << call >>)
  ELSE FixContinue(r, loc[r], loc[r].idx + 1, << call >>)

\* The script's rpc('classify_equipment') returns.
FixClassify(r) ==
  /\ pc[r] = "fix_classify"
  /\ \E a \in ClassifyAnswers :
       FixClassifyReturn(r, a, Call("classify_equipment", loc[r].idx, a, NoWrite))
  /\ UNCHANGED << scenario, req, chat, resp, dbVars, rng, calcIn, calcOut >>

FixSavingsReturn(r, a, call) ==
  IF a.kind = "rows"
  THEN FixContinue(r, Accumulate(loc[r], a), loc[r].idx + 1, << call >>)
  ELSE FixContinue(r, loc[r], loc[r].idx + 1, << call >>)

\* The script's rpc('calculate_savings') returns; the entry is pushed.
FixSavings(r) ==
  /\ pc[r] = "fix_savings"
  /\ \E a \in SavingsAnswers :
       FixSavingsReturn(r, a, Call("calculate_savings", loc[r].idx, a,
                                   [table |-> "rpc",
                                    p_equipment_class |-> loc[r].equipment_class,
                                    p_actual_amount |-> loc[r].actualAmount,
                                    p_rental_days |-> loc[r].rentalDays]))
  /\ UNCHANGED << scenario, req, chat, resp, dbVars, rng, calcIn, calcOut >>

\* The update after the item loop returns; the next invoice.
FixUpdate(r) ==
  /\ pc[r] = "fix_update"
  /\ \E a \in FixUpdateAnswers :
       /\ FixWrite(r, a, loc[r].invoiceId, loc[r].totalMarketSavings,
                   loc[r].equipmentWithRates)
       /\ FixInvoiceAt(r, loc[r], loc[r].inv + 1,
                       << FixUpdateCall(loc[r], a, loc[r].totalMarketSavings,
                                        loc[r].equipmentWithRates) >>)
  /\ UNCHANGED << scenario, req, chat, resp, equipment_rates, chat_logs, referrals,
                  rng, calcIn, calcOut >>

FixStep(r) ==
  \/ FixFetch(r)
  \/ FixUpdateEmpty(r)
  \/ FixClassify(r)
  \/ FixSavings(r)
  \/ FixUpdate(r)

InitIdleCalc == calcIn = [dayRate |-> Null, weekRate |-> Null, fourWeekRate |-> Null,
                          rentalDays |-> Null] /\ calcOut = NoCalc

\* One /parse-base64 request of the current version, over invoices that
\* differ in fees and scalar fields.
InitFees == scenario = "fees" /\ InitServer /\ InitIdleCalc
NextFees ==
  \/ Receive(1)
  \/ ParseStart(1)
  \/ ParseBase64Llm(1)
  \/ ParseBase64Insert(1)
  \/ ParseBase64Update(1)
SpecFees == InitFees /\ [][NextFees]_vars

\* One /parse-base64 request of the current version, over equipment lists
\* and stored-procedure answers.
InitEquipment == scenario = "equipment" /\ InitServer /\ InitIdleCalc
NextEquipment ==
  \/ Receive(1)
  \/ ParseStart(1)
  \/ ParseBase64Llm(1)
  \/ ParseBase64Insert(1)
  \/ ParseBase64Classify(1)
  \/ ParseBase64Savings(1)
  \/ ParseBase64Rates(1)
  \/ ParseBase64Update(1)
SpecEquipment == InitEquipment /\ [][NextEquipment]_vars

\* One /chat request, over run statuses, tool-call batches and answers.
InitChat == scenario = "chat" /\ InitServer /\ InitIdleCalc
NextChat == Receive(1) \/ ChatStep(1)
SpecChat == InitChat /\ [][NextChat]_vars
\* Every call the handler awaits returns or throws, and the sleep ends.
SpecChatLive == SpecChat /\ WF_vars(NextChat)

\* One /parse-base64 request of either copy in index.js, over items that
\* differ in rental_days, amount, rates and description, and billed dates.
InitItems == scenario = "items" /\ InitServer /\ InitIdleCalc
SpecItems == InitItems /\ [][NextEquipment]_vars

\* A request (slot 1), a second run of it that is given the same answers
\* (slot 2), and another request handled before or in between (slot 3).
TwinSlots == {1, 2, 3}
TwinStep(r) ==
  \/ Receive(r)
  \/ ParseStart(r)
  \/ ParseBase64Llm(r)
  \/ ParseBase64Insert(r)
  \/ ParseBase64Classify(r)
  \/ ParseBase64Savings(r)
  \/ ParseBase64Rates(r)
  \/ ParseBase64Update(r)
  \/ ChatStart(r)
  \/ ChatMessage(r)
  \/ ChatRun(r)
  \/ ChatRetrieve(r)
  \/ ChatTool(r)
  \/ ChatGiveaway(r)
  \/ ChatGiveawayExisting(r)
  \/ ChatSubmit(r)
  \/ ChatList(r)
  \/ ChatLog(r)
InitTwin == scenario = "twin" /\ InitServer /\ InitIdleCalc
NextTwin == \E r \in TwinSlots : TwinStep(r)
SpecTwin == InitTwin /\ [][NextTwin]_vars

\* One request to any endpoint, with and without its required input, over
\* every shape of OpenAI text and every outcome of the insert.
InitInputs == scenario = "inputs" /\ InitServer /\ InitIdleCalc
NextInputs ==
  \/ Receive(1)
  \/ ParseStart(1)
  \/ ParseLlm(1)
  \/ ParseBase64Llm(1)
  \/ ParseBase64Insert(1)
  \/ ParseBase64Classify(1)
  \/ ParseBase64Savings(1)
  \/ ParseBase64Rates(1)
  \/ ParseBase64Update(1)
  \/ ChatStart(1)
  \/ ChatThread(1)
  \/ ChatMessage(1)
  \/ ChatRun(1)
  \/ ChatRetrieve(1)
  \/ ChatTool(1)
  \/ ChatGiveaway(1)
  \/ ChatSubmit(1)
  \/ ChatList(1)
  \/ ChatLog(1)
  \/ SearchInvoicesStart(1)
  \/ SearchInvoicesSelect(1)
SpecInputs == InitInputs /\ [][NextInputs]_vars

\* POST /parse-base64 requests of the current version in flight while
\* fixExistingInvoices runs once, started at any moment.
ScriptSlot == MaxReq + 1
RequestStep(r) ==
  \/ Receive(r)
  \/ ParseStart(r)
  \/ ParseBase64Llm(r)
  \/ ParseBase64Insert(r)
  \/ ParseBase64Classify(r)
  \/ ParseBase64Savings(r)
  \/ ParseBase64Rates(r)
  \/ ParseBase64Update(r)
InitFix == scenario = "fix" /\ InitServer /\ InitIdleCalc
NextFix == (\E r \in 1..MaxReq : RequestStep(r)) \/ FixStep(ScriptSlot)
SpecFix == InitFix /\ [][NextFix]_vars

\* Requests to every version of the parse endpoints and to the earlier
\* /test-db, in flight together.
Init == scenario = "server" /\ InitServer /\ InitIdleCalc
Next == \E r \in Slots : ParseStep(r) \/ TestDb(r)
Spec == Init /\ [][Next]_vars

(***************************************************************************)
(* C4.  calculateExpectedAmount returns 0 when all three rates read as 0;  *)
(* otherwise, with D = day rate, else week/5, else fourWeek/20, W = week   *)
(* rate, else day*5, else fourWeek/4, and M = four-week rate, else week*4, *)
(* else day*20, it returns D*days for days <= 2, min(D*days, W) for        *)
(* 3..6 days, min(D*days, W*ceil(days/7), M) for 7..27 days and            *)
(* min(M*ceil(days/28), W*ceil(days/7)) from 28 days on.  The claimed      *)
(* amount is compared as a fraction: 20 * claimed = returned numerator.    *)
(***************************************************************************)
ClaimRate(v) == IF parseFloat(v).nan THEN 0 ELSE parseFloat(v).n
ClaimDays(v) == IF parseInt(v).nan \/ parseInt(v).n = 0 THEN 1 ELSE parseInt(v).n
\* The least q with q * b >= a, for a >= 0.
ClaimCeil(a, b) == CHOOSE q \in 0..a : q * b >= a /\ (q - 1) * b < a
\* The least element of a non-empty set of integers.
Least(S) == CHOOSE x \in S : \A y \in S : x <= y

\* 20 times the claimed amount.
ClaimedAmount20(in) ==
  LET day == ClaimRate(in.dayRate)
      week == ClaimRate(in.weekRate)
      month == ClaimRate(in.fourWeekRate)
      days == ClaimDays(in.rentalDays)
      D20 == IF day # 0 THEN 20 * day ELSE IF week # 0 THEN 4 * week ELSE month
      W20 == IF week # 0 THEN 20 * week ELSE IF day # 0 THEN 100 * day ELSE 5 * month
      M20 == IF month # 0 THEN 20 * month ELSE IF week # 0 THEN 80 * week ELSE 400 * day
  IN  CASE day = 0 /\ week = 0 /\ month = 0 -> 0
        [] OTHER ->
           CASE days <= 2 -> D20 * days
             [] days >= 3 /\ days <= 6 -> Least({D20 * days, W20})
             [] days >= 7 /\ days <= 27 ->
                  Least({D20 * days, W20 * ClaimCeil(days, 7), M20})
             [] days >= 28 ->
                  Least({M20 * ClaimCeil(days, 28), W20 * ClaimCeil(days, 7)})

C4_ExpectedAmountTiers ==
  calcOut.done => calcOut.v = ClaimedAmount20(calcIn)

\* 21 days at a week rate of 600 alone: three weeks, 1800, below the day and
\* four-week figures derived from it.
C4_Witness ==
  /\ calcOut.done
  /\ calcIn.dayRate = Null /\ calcIn.weekRate = Num(600) /\ calcIn.fourWeekRate = Null
  /\ calcIn.rentalDays = Num(21)
  /\ calcOut.v = 20 * 1800

(***************************************************************************)
(* Shared by the claims below.                                             *)
(***************************************************************************)
Done(r) == pc[r] = "done"
IsParseBase64(r) == req[r].path = "/parse-base64"
IsCurrent(r) == req[r].ver = "cur" /\ IsParseBase64(r)
Succeeded(r) == Done(r) /\ resp[r].success
RowsBy(r) == {k \in 1..Len(parsed_invoices) : parsed_invoices[k].by = r}
Positions(r, op) == {k \in 1..Len(trace[r]) : trace[r][k].op = op}
RowOfRequest(r) == parsed_invoices[loc[r].invoiceId]

\* A JSON value read as an amount, as the claims read it: a number is itself,
\* a string that starts with a number is that number, anything else is 0.
ClaimAmount(v) ==
  CASE v.t = "num" -> v.n
    [] v = Str("12 USD") -> 12
    [] OTHER -> 0

RECURSIVE ClaimSum(_)
ClaimSum(entries) ==
  IF entries = <<>> THEN 0 ELSE ClaimAmount(Head(entries).amount) + ClaimSum(Tail(entries))

\* Null for 0, the number otherwise.
NullIfZero(k) == IF k = 0 THEN Null ELSE Num(k)

(***************************************************************************)
(* C1 as claimed.  Every POST /parse or POST /parse-base64, of any         *)
(* version, that answers success:true has inserted exactly one             *)
(* parsed_invoices row for that request.                                   *)
(***************************************************************************)
C1_AsClaimed ==
  \A r \in Slots :
    (Succeeded(r) /\ req[r].path \in {"/parse", "/parse-base64"})
      => Cardinality(RowsBy(r)) = 1

(***************************************************************************)
(* C1 as amended.  A POST /parse-base64 of either copy in src/index.js     *)
(* that answers success:true has inserted exactly one row; POST /parse     *)
(* inserts no row in any version; the /parse-base64 of the first version   *)
(* (part_000) makes exactly one insert call and answers success:true       *)
(* whether or not it stored a row.                                         *)
(***************************************************************************)
C1_RowPerSuccessfulParseBase64 ==
  \A r \in Slots :
    /\ (Succeeded(r) /\ IsParseBase64(r) /\ req[r].ver \in {"cur", "old"})
         => /\ Cardinality(RowsBy(r)) = 1
            /\ Cardinality(Positions(r, "insert")) = 1
    /\ req[r].path = "/parse" => RowsBy(r) = {} /\ Positions(r, "insert") = {}
    /\ (Succeeded(r) /\ IsParseBase64(r) /\ req[r].ver = "p0")
         => /\ Cardinality(Positions(r, "insert")) = 1
            /\ Cardinality(RowsBy(r)) =
                 IF trace[r][2].ans.kind = "ok" THEN 1 ELSE 0

\* A current /parse-base64 answered success with its one row stored, beside a
\* first-version /parse-base64 that answered success after a failed insert.
C1_Witness ==
  \E r, q \in Slots :
    /\ Succeeded(r) /\ IsCurrent(r) /\ Cardinality(RowsBy(r)) = 1
    /\ Succeeded(q) /\ IsParseBase64(q) /\ req[q].ver = "p0" /\ RowsBy(q) = {}

(***************************************************************************)
(* C2.  No parsed_invoices row is ever deleted or replaced, and the        *)
(* savings fields of a row are written at most once: by the /parse-base64  *)
(* request that inserted it, after every classify_equipment and            *)
(* calculate_savings call of that request, and by no other request.        *)
(***************************************************************************)
RowsKept ==
  /\ Len(parsed_invoices') >= Len(parsed_invoices)
  /\ \A k \in 1..Len(parsed_invoices) :
       /\ parsed_invoices'[k].id = parsed_invoices[k].id
       /\ parsed_invoices'[k].by = parsed_invoices[k].by
       /\ parsed_invoices'[k].cols = parsed_invoices[k].cols

SavingsWrittenOnceByOwner ==
  \A k \in 1..Len(parsed_invoices) :
    LET row == parsed_invoices[k]
    IN  /\ Len(row.saved) <= 1
        /\ row.saved = <<>> => row.market_savings = Null /\ row.equipment_with_rates = <<>>
        /\ \A j \in 1..Len(row.saved) :
             /\ row.saved[j] = row.by
             /\ IsParseBase64(row.by)
             /\ \E u \in Positions(row.by, "update") :
                  \A c \in Positions(row.by, "classify_equipment")
                           \cup Positions(row.by, "calculate_savings") : c < u

C2_RowsKeptSavingsWrittenOnce ==
  []SavingsWrittenOnceByOwner /\ [][RowsKept]_vars

\* Two rows of two requests, each with its savings fields written once.
C2_Witness ==
  /\ Len(parsed_invoices) = 2
  /\ parsed_invoices[1].by # parsed_invoices[2].by
  /\ \A k \in 1..2 : parsed_invoices[k].saved = << parsed_invoices[k].by >>
  /\ \E k \in 1..2 : parsed_invoices[k].market_savings = Num(30)

(***************************************************************************)
(* C3.  Within one POST /parse-base64 request the external steps come in   *)
(* this order and no other: the LLM call, the parsed_invoices insert, per  *)
(* equipment item classify_equipment and then calculate_savings, the       *)
(* savings update, the response.  calculate_savings is called for an item  *)
(* only right after classify_equipment returned rows for that item, and no *)
(* stored procedure (nor any later step but the response) is called before *)
(* the insert returned a row.                                              *)
(***************************************************************************)
StepRank(op) ==
  CASE op = "llm" -> 1
    [] op = "insert" -> 2
    [] op \in {"classify_equipment", "calculate_savings", "rates_insert"} -> 3
    [] op = "update" -> 4
    [] OTHER -> 5

InClaimedOrder(t) ==
  /\ \A j, k \in 1..Len(t) : j < k => StepRank(t[j].op) <= StepRank(t[k].op)
  /\ \A j, k \in 1..Len(t) :
       (j < k /\ t[j].op = t[k].op)
         => /\ t[j].op \in {"classify_equipment", "calculate_savings", "rates_insert"}
            /\ t[j].i < t[k].i
  /\ \A k \in 1..Len(t) :
       /\ t[k].op = "insert" => k = 2 /\ t[1].op = "llm"
       /\ t[k].op = "calculate_savings"
            => /\ k > 1
               /\ t[k - 1].op = "classify_equipment"
               /\ t[k - 1].i = t[k].i
               /\ t[k - 1].ans.kind = "rows"
       /\ StepRank(t[k].op) \in {3, 4} => t[2].op = "insert" /\ t[2].ans.kind = "ok"
       /\ (t[k].op = "update" /\ k < Len(t)) => t[k + 1].op = "respond"
       /\ t[k].op = "respond" => k = Len(t)

C3_ExternalStepsInOrder ==
  \A r \in Slots :
    IsCurrent(r) =>
      /\ InClaimedOrder(trace[r])
      /\ Done(r) => trace[r][Len(trace[r])].op = "respond"
      /\ Succeeded(r) =>
           /\ Positions(r, "llm") = {1}
           /\ Positions(r, "insert") = {2}
           /\ Positions(r, "update") = {Len(trace[r]) - 1}

\* Two items, each classified and priced, then the update and the response.
C3_Witness ==
  /\ Succeeded(1) /\ IsCurrent(1)
  /\ Len(trace[1]) = 10
  /\ Cardinality(Positions(1, "calculate_savings")) = 2

(***************************************************************************)
(* C5.  A key of the extracted fees object leaves fees and has its amount  *)
(* added to freight exactly when its lower-cased name contains a freight   *)
(* keyword, does not contain 'surcharge', and its amount is greater than   *)
(* 0; every other key stays, with its original value, in the stored and    *)
(* the returned fees.  The names are judged here by hand, one by one.      *)
(***************************************************************************)
ClaimedFreightName(name) ==
  CASE name = "Delivery Fee" -> TRUE          \* delivery
    [] name = "PICKUP" -> TRUE                \* pickup
    [] name = "Inbound Freight" -> TRUE       \* inbound, freight
    [] name = "TRANSPORT SURCHARGE" -> FALSE  \* transport, but surcharge
    [] name = "fuel_surcharge" -> FALSE
    [] name = "environmental" -> FALSE
    [] OTHER -> FALSE

ClaimedMoved(entry) == ClaimedFreightName(entry.name) /\ ClaimAmount(entry.amount) > 0
ClaimedKept(entry) == ~ClaimedMoved(entry)
ExtractedFees(r) == IF loc[r].parsed.fees.isObject THEN loc[r].parsed.fees.entries ELSE <<>>

C5_FreightFeesReclassified ==
  (Succeeded(1) /\ IsCurrent(1)) =>
    /\ resp[1].data.fees = SelectSeq(ExtractedFees(1), ClaimedKept)
    /\ RowOfRequest(1).cols.fees = SelectSeq(ExtractedFees(1), ClaimedKept)
    /\ resp[1].data.freight.n =
         ClaimAmount(loc[1].parsed.freight)
           + ClaimSum(SelectSeq(ExtractedFees(1), ClaimedMoved))

\* A delivery fee moved to freight beside a transport surcharge that stayed.
C5_Witness ==
  /\ Succeeded(1) /\ IsCurrent(1)
  /\ ExtractedFees(1) = << Fee("Delivery Fee", Num(40)), Fee("TRANSPORT SURCHARGE", Num(40)) >>
  /\ loc[1].parsed.freight = Num(25)
  /\ resp[1].data.fees = << Fee("TRANSPORT SURCHARGE", Num(40)) >>
  /\ resp[1].data.freight = Num(65)

(***************************************************************************)
(* C6.  The reclassification conserves money: returned freight plus the    *)
(* amounts left in fees equals extracted freight plus all extracted fee    *)
(* amounts (absent or non-numeric counted as 0), and fees_total is the sum *)
(* of the amounts left in fees plus meter_charges.                         *)
(***************************************************************************)
C6_ReclassificationConservesMoney ==
  (Succeeded(1) /\ IsCurrent(1)) =>
    /\ resp[1].data.freight.n + ClaimSum(resp[1].data.fees) =
         ClaimAmount(loc[1].parsed.freight) + ClaimSum(ExtractedFees(1))
    /\ resp[1].data.fees_total.n =
         ClaimSum(resp[1].data.fees) + resp[1].data.meter_charges.n
    /\ resp[1].data.meter_charges.n = ClaimAmount(loc[1].parsed.meter_charges)

\* A pickup fee moved, a negative fee and a meter charge left behind.
C6_Witness ==
  /\ Succeeded(1) /\ IsCurrent(1)
  /\ ExtractedFees(1) = << Fee("PICKUP", Str("12 USD")), Fee("environmental", Num(0 - 15)) >>
  /\ loc[1].parsed.meter_charges = Num(8)
  /\ resp[1].data.freight = Num(37)
  /\ resp[1].data.fees_total = Num(0 - 7)

(***************************************************************************)
(* C7 as claimed.  In the inserted row each of rental_subtotal, freight,   *)
(* freight_total, meter_charges, fees_total, tax, total and fee_percentage *)
(* is null when its value is absent, non-numeric or zero and is otherwise  *)
(* the parsed number; in the response freight, freight_total,              *)
(* meter_charges, fees_total and fee_percentage are the number 0 in those  *)
(* cases; fee_percentage is 0 whenever rental_subtotal is not above 0.     *)
(***************************************************************************)
IsNumber(v) == v.t \in {"num", "frac"}

NumericDefaultsBut(meterColumn) ==
  (Succeeded(1) /\ IsCurrent(1)) =>
    LET cols == RowOfRequest(1).cols
        data == resp[1].data
        parsed == loc[1].parsed
    IN  /\ cols.rental_subtotal = NullIfZero(ClaimAmount(parsed.rental_subtotal))
        /\ cols.tax = NullIfZero(ClaimAmount(parsed.tax))
        /\ cols.total = NullIfZero(ClaimAmount(parsed.total))
        /\ cols.meter_charges = meterColumn
        /\ cols.freight = NullIfZero(data.freight.n)
        /\ cols.freight_total = NullIfZero(data.freight_total.n)
        /\ cols.fees_total = NullIfZero(data.fees_total.n)
        /\ cols.fee_percentage =
             IF data.fee_percentage.n = 0 THEN Null ELSE data.fee_percentage
        /\ \A v \in {data.freight, data.freight_total, data.meter_charges,
                     data.fees_total, data.fee_percentage} : IsNumber(v)
        /\ data.meter_charges = Num(ClaimAmount(parsed.meter_charges))
        /\ data.freight_total = data.freight
        /\ (ClaimAmount(parsed.freight) = 0 /\ data.fees = ExtractedFees(1))
             => data.freight = Num(0)
        /\ (ClaimSum(data.fees) = 0 /\ ClaimAmount(parsed.meter_charges) = 0)
             => data.fees_total = Num(0)
        /\ ClaimAmount(parsed.rental_subtotal) <= 0 => data.fee_percentage = Num(0)

C7_AsClaimed ==
  NumericDefaultsBut(NullIfZero(ClaimAmount(loc[1].parsed.meter_charges)))

(***************************************************************************)
(* C7 as amended.  The same, except that the meter_charges column is also  *)
(* null when the extracted meter_charges is negative: it holds the parsed  *)
(* number only when that number is greater than 0.                         *)
(***************************************************************************)
C7_NumericDefaults ==
  NumericDefaultsBut(IF ClaimAmount(loc[1].parsed.meter_charges) > 0
                     THEN Num(ClaimAmount(loc[1].parsed.meter_charges))
                     ELSE Null)

\* A negative meter charge: null in the row, the number in the response,
\* beside a negative rental_subtotal that is stored as it is.
C7_Witness ==
  /\ Succeeded(1) /\ IsCurrent(1)
  /\ loc[1].parsed.meter_charges = Num(0 - 8)
  /\ loc[1].parsed.rental_subtotal = Num(0 - 50)
  /\ loc[1].parsed.tax = Str("n/a")
  /\ RowOfRequest(1).cols.meter_charges = Null
  /\ RowOfRequest(1).cols.rental_subtotal = Num(0 - 50)
  /\ RowOfRequest(1).cols.tax = Null
  /\ resp[1].data.meter_charges = Num(0 - 8)
  /\ resp[1].data.fee_percentage = Num(0)

(***************************************************************************)
(* C8.  In the savings update and in the response, market_savings is the   *)
(* sum of total_overpaid (unparsable counted as 0) over the entries of     *)
(* equipment_with_rates, and equipment_with_rates holds one entry for each *)
(* item for which classify_equipment and calculate_savings both returned   *)
(* rows, in the order of the equipment list, and no other entry.           *)
(***************************************************************************)
RECURSIVE OverpaidSum(_)
OverpaidSum(entries) ==
  IF entries = <<>> THEN 0
  ELSE ClaimAmount(Head(entries).total_overpaid) + OverpaidSum(Tail(entries))

\* The items both procedures returned rows for, by what the calls answered.
BothReturnedRows(r, i) ==
  /\ \E k \in Positions(r, "classify_equipment") :
       trace[r][k].i = i /\ trace[r][k].ans.kind = "rows"
  /\ \E k \in Positions(r, "calculate_savings") :
       trace[r][k].i = i /\ trace[r][k].ans.kind = "rows"

RECURSIVE RatedFrom(_, _)
RatedFrom(r, i) ==
  IF i > Len(loc[r].parsed.equipment) THEN <<>>
  ELSE (IF BothReturnedRows(r, i) THEN << i >> ELSE <<>>) \o RatedFrom(r, i + 1)

EntriesAsClaimed(r, entries, savings) ==
  /\ savings = OverpaidSum(entries)
  /\ [k \in 1..Len(entries) |-> entries[k].idx] = RatedFrom(r, 1)
  /\ \A k \in 1..Len(entries) :
       entries[k].item = loc[r].parsed.equipment[entries[k].idx]

C8_MarketSavingsSumsEntries ==
  \A r \in Slots :
    IsCurrent(r) =>
      /\ \A k \in Positions(r, "update") :
           EntriesAsClaimed(r, trace[r][k].w.equipment_with_rates,
                            trace[r][k].w.market_savings)
      /\ Succeeded(r) =>
           EntriesAsClaimed(r, resp[r].data.equipment_with_rates,
                            resp[r].data.market_savings)

\* Two items: the first priced with an unparsable total_overpaid, the second
\* with 30; or one of them skipped.
C8_Witness ==
  /\ Succeeded(1) /\ IsCurrent(1)
  /\ Len(loc[1].parsed.equipment) = 2
  /\ Len(resp[1].data.equipment_with_rates) = 2
  /\ resp[1].data.equipment_with_rates[1].total_overpaid = Str("n/a")
  /\ resp[1].data.equipment_with_rates[2].total_overpaid = Num(30)
  /\ resp[1].data.market_savings = 30

(***************************************************************************)
(* C9.  In POST /chat, whenever the run requires action, the tool outputs  *)
(* submitted hold exactly one output per tool call of the batch, with that *)
(* call's tool_call_id and in the batch's order, and the output is the     *)
(* result of searchInvoices for search_invoices, getInvoiceDetails for     *)
(* get_invoice_details, getSavingsSummary for get_savings_summary and      *)
(* saveGiveawayEntry for save_giveaway_entry.  Read where the handler      *)
(* waits for submitToolOutputs, which it has called with toolOutputs.      *)
(***************************************************************************)
ClaimedHelper(name) ==
  CASE name = "search_invoices" -> "searchInvoices"
    [] name = "get_invoice_details" -> "getInvoiceDetails"
    [] name = "get_savings_summary" -> "getSavingsSummary"
    [] name = "save_giveaway_entry" -> "saveGiveawayEntry"
    [] OTHER -> "none"

C9_OneOutputPerToolCall ==
  \A r \in Slots :
    pc[r] = "submit" =>
      /\ Len(chat[r].toolOutputs) = Len(chat[r].toolCalls)
      /\ \A k \in 1..Len(chat[r].toolCalls) :
           /\ chat[r].toolOutputs[k].tool_call_id = chat[r].toolCalls[k].id
           /\ chat[r].toolOutputs[k].output.fn = ClaimedHelper(chat[r].toolCalls[k].name)

(***************************************************************************)
(* C10 as claimed.  For POST /parse-base64 and POST /chat, a second run of *)
(* a request that receives the same answers from the LLM and the database  *)
(* makes the same calls, the same database writes and the same response,   *)
(* whatever other request was handled before or in between.  The row id    *)
(* the database assigns is part of its answer and is left out of the       *)
(* comparison.                                                             *)
(***************************************************************************)
DbTables == {"parsed_invoices", "equipment_rates", "chat_logs", "referrals"}

SameWrite(a, b, withCode) ==
  CASE a.w.table \notin DbTables -> TRUE
    [] a.op = "update" ->
         /\ a.w.market_savings = b.w.market_savings
         /\ a.w.equipment_with_rates = b.w.equipment_with_rates
    [] a.op = "rates_insert" ->
         [a.w.row EXCEPT !.invoice_id = 0] = [b.w.row EXCEPT !.invoice_id = 0]
    [] a.op = "referrals.insert" ->
         /\ a.w.row.email = b.w.row.email
         /\ withCode => a.w.row.referral_code = b.w.row.referral_code
    [] OTHER -> a.w = b.w

SameCalls(s, t, withCode) ==
  /\ Len(s) = Len(t)
  /\ \A k \in 1..Len(s) :
       /\ s[k].op = t[k].op
       /\ s[k].i = t[k].i
       /\ s[k].ans = t[k].ans
       /\ s[k].w.table = t[k].w.table
       /\ SameWrite(s[k], t[k], withCode)

SameData(x, y) ==
  IF "id" \in DOMAIN x /\ "id" \in DOMAIN y
  THEN [x EXCEPT !.id = 0] = [y EXCEPT !.id = 0]
  ELSE x = y

SameResponse(x, y) ==
  /\ x.status = y.status
  /\ x.success = y.success
  /\ x.error = y.error
  /\ SameData(x.data, y.data)

BothRan == scenario = "twin" /\ Done(1) /\ Done(2)

C10_AsClaimed ==
  BothRan => SameCalls(trace[1], trace[2], TRUE) /\ SameResponse(resp[1], resp[2])

(***************************************************************************)
(* C10 as amended.  The same, except for the referral_code that            *)
(* save_giveaway_entry writes to referrals during a POST /chat: it is      *)
(* drawn from Math.random and is not determined by the request and the     *)
(* answers.                                                                *)
(***************************************************************************)
C10_SameRunButReferralCode ==
  BothRan => SameCalls(trace[1], trace[2], FALSE) /\ SameResponse(resp[1], resp[2])

\* A /parse-base64 answered twice with success, the second run on another
\* row id, while a /chat that entered the giveaway was handled as well.
C10_Witness ==
  /\ BothRan /\ Done(3)
  /\ IsCurrent(1) /\ Succeeded(1) /\ Succeeded(2)
  /\ loc[1].invoiceId # loc[2].invoiceId
  /\ resp[1].data.market_savings = 30
  /\ req[3].path = "/chat" /\ Succeeded(3)
  /\ \E k \in 1..Len(referrals) : referrals[k].by = 3

(***************************************************************************)
(* C11.  A request that lacks its required input is answered before any    *)
(* external call: POST /parse without a file with 400 'No file uploaded',  *)
(* POST /parse-base64 without base64Image with 400 'No image provided',    *)
(* POST /chat without a message with 400 'No message provided', POST       *)
(* /search-invoices without a userId with 401 'User ID required'.  The     *)
(* response is the only entry of the request's history: no OpenAI call,    *)
(* no read and no write of the database; every table stays as it was.      *)
(***************************************************************************)
MissingInput(rq) ==
  CASE rq.path \in {"/parse", "/parse-base64"} -> ~rq.body.hasInput
    [] rq.path = "/chat" -> rq.body.message = ""
    [] rq.path = "/search-invoices" -> rq.body.userId \in {Null, Str("")}
    [] OTHER -> FALSE

ClaimedRejection(rq) ==
  CASE rq.path = "/parse" -> [status |-> 400, error |-> "No file uploaded"]
    [] rq.path = "/parse-base64" -> [status |-> 400, error |-> "No image provided"]
    [] rq.path = "/chat" -> [status |-> 400, error |-> "No message provided"]
    [] OTHER -> [status |-> 401, error |-> "User ID required"]

Handled(r) == pc[r] \notin {"idle", "start"}

C11_MissingInputRejectedFirst ==
  \A r \in Slots :
    (Handled(r) /\ MissingInput(req[r])) =>
      /\ Done(r)
      /\ resp[r].status = ClaimedRejection(req[r]).status
      /\ resp[r].error = ClaimedRejection(req[r]).error
      /\ ~resp[r].success
      /\ trace[r] = << RespondEntry >>
      /\ parsed_invoices = <<>> /\ equipment_rates = <<>>
      /\ chat_logs = <<>> /\ referrals = <<>>

\* A /search-invoices request with an empty userId has been answered 401.
C11_Witness ==
  /\ Done(1) /\ MissingInput(req[1])
  /\ req[1].path = "/search-invoices" /\ req[1].body.userId = Str("")
  /\ resp[1].status = 401

(***************************************************************************)
(* C12.  JSON repair in POST /parse-base64: the LLM text is used as is     *)
(* when it is valid JSON; otherwise the substring from its first '{' to    *)
(* its last '}' is parsed.  The parsed value is what the insert is built   *)
(* from.  When neither yields JSON the request is answered 500 with        *)
(* success:false, no row is inserted into parsed_invoices or               *)
(* equipment_rates and no stored procedure is called.                      *)
(***************************************************************************)
Most(S) == CHOOSE x \in S : \A y \in S : y <= x
Where(text, c) == {i \in 1..Len(text) : text[i] = c}

\* The substring from the first '{' to the last '}', <<>> when there is none.
ClaimedSubstring(text) ==
  IF Where(text, "{") = {} \/ Where(text, "}") = {} THEN <<>>
  ELSE SubSeq(text, Least(Where(text, "{")), Most(Where(text, "}")))

ClaimedYieldsJson(text) == JSONparse(text) \/ JSONparse(ClaimedSubstring(text))

PastLlm(r) ==
  /\ IsParseBase64(r)
  /\ Positions(r, "llm") # {}
  /\ trace[r][1].ans.kind # "throw"

AfterLlmOps == {"insert", "classify_equipment", "calculate_savings", "rates_insert", "update"}

C12_JsonRepair ==
  \A r \in Slots :
    PastLlm(r) =>
      IF ClaimedYieldsJson(Content(trace[r][1].ans.kind))
      THEN /\ loc[r].parsed = trace[r][1].ans.parsed
           /\ pc[r] = "insert" \/ Positions(r, "insert") # {}
           /\ \A k \in Positions(r, "insert") :
                trace[r][k].w.row =
                  InvoiceRow(req[r].ver, trace[r][1].ans.parsed, req[r].body.userId)
      ELSE /\ Done(r)
           /\ resp[r].status = 500 /\ ~resp[r].success
           /\ \A k \in 1..Len(trace[r]) : trace[r][k].op \notin AfterLlmOps
           /\ parsed_invoices = <<>> /\ equipment_rates = <<>>

\* Two JSON objects with text between them: the text is not JSON, nor is
\* the substring from the first '{' to the last '}'; the request was
\* answered 500.
C12_Witness ==
  /\ PastLlm(1) /\ Done(1)
  /\ trace[1][1].ans.kind = "two"
  /\ ~ClaimedYieldsJson(Content("two"))
  /\ Len(ClaimedSubstring(Content("two"))) = 7
  /\ resp[1].status = 500

(***************************************************************************)
(* C13.  When the parsed_invoices insert of POST /parse-base64 (either     *)
(* copy in index.js) returns an error, no row, or a row without an id, the *)
(* request is answered 500 'Failed to insert invoice': no                  *)
(* classify_equipment or calculate_savings call, no equipment_rates        *)
(* insert and no update follow the insert.                                 *)
(***************************************************************************)
InIndexJs(r) == IsParseBase64(r) /\ req[r].ver \in {"cur", "old"}
InsertFailures == {"error", "norow", "noid"}
InsertFailed(r) ==
  \E k \in Positions(r, "insert") : trace[r][k].ans.kind \in InsertFailures

C13_FailedInsertStopsRequest ==
  \A r \in Slots :
    (InIndexJs(r) /\ InsertFailed(r)) =>
      /\ Done(r)
      /\ resp[r].status = 500 /\ ~resp[r].success
      /\ resp[r].error = "Failed to insert invoice"
      /\ Len(trace[r]) = 3
      /\ trace[r][1].op = "llm" /\ trace[r][2].op = "insert"
      /\ trace[r][3] = RespondEntry
      /\ \A k \in 1..Len(equipment_rates) : equipment_rates[k].invoice_id # loc[r].invoiceId
      /\ RowsBy(r) = {}

\* The insert of the earlier copy returned a row without an id.
C13_Witness ==
  /\ Done(1) /\ IsParseBase64(1) /\ req[1].ver = "old"
  /\ Len(trace[1]) = 3
  /\ trace[1][2].op = "insert" /\ trace[1][2].ans.kind = "noid"
  /\ resp[1].error = "Failed to insert invoice"

(***************************************************************************)
(* C14.  Once the parsed_invoices insert of a POST /parse-base64 request   *)
(* has succeeded, the request issues the savings update for that row and   *)
(* then answers success:true, whatever happens while the equipment items   *)
(* are handled (a failing stored procedure, a failing equipment_rates      *)
(* insert, a malformed item): a finished request whose insert succeeded    *)
(* has made the update for its row as its last call and has answered       *)
(* success:true.                                                           *)
(***************************************************************************)
InsertSucceeded(r) ==
  \E k \in Positions(r, "insert") : trace[r][k].ans.kind = "ok"

UpdateIssued(r) ==
  /\ Len(trace[r]) >= 2
  /\ trace[r][Len(trace[r]) - 1].op = "update"
  /\ trace[r][Len(trace[r]) - 1].w.id = loc[r].invoiceId

C14_UpdateAndSuccessAfterInsert ==
  \A r \in Slots :
    (IsCurrent(r) /\ Done(r) /\ InsertSucceeded(r)) =>
      UpdateIssued(r) /\ resp[r].success

(***************************************************************************)
(* C15.  In POST /parse-base64 of the current version the rental days used *)
(* for an equipment item are the item's own rental_days (read as an        *)
(* integer) when that is greater than 1, and otherwise the invoice-level   *)
(* days: the number of days from billed_from to billed_through, in either  *)
(* order and counting a started day as a day, when both are dates and      *)
(* differ, else 28.  The p_rental_days passed to calculate_savings and the *)
(* rental_days stored in equipment_rates are that number, an integer >= 1. *)
(***************************************************************************)
IsDate(v) == v.t = "str" /\ v.s = "date"

\* Dates are given in half days.
ClaimedInvoiceDays(parsed) ==
  IF /\ IsDate(parsed.billed_from) /\ IsDate(parsed.billed_through)
     /\ parsed.billed_from.n # parsed.billed_through.n
  THEN ClaimCeil(Abs(parsed.billed_through.n - parsed.billed_from.n), 2)
  ELSE 28

ClaimedRentalDays(item, parsed) ==
  IF ~parseInt(item.rental_days).nan /\ parseInt(item.rental_days).n > 1
  THEN parseInt(item.rental_days).n
  ELSE ClaimedInvoiceDays(parsed)

C15_RentalDays ==
  \A r \in Slots :
    IsCurrent(r) =>
      /\ \A k \in Positions(r, "calculate_savings") :
           /\ trace[r][k].w.p_rental_days =
                ClaimedRentalDays(loc[r].parsed.equipment[trace[r][k].i], loc[r].parsed)
           /\ trace[r][k].w.p_rental_days \in Nat \ {0}
      /\ \A k \in Positions(r, "rates_insert") :
           /\ trace[r][k].w.row.rental_days =
                ClaimedRentalDays(loc[r].parsed.equipment[trace[r][k].i], loc[r].parsed)
           /\ trace[r][k].w.row.rental_days \in Nat \ {0}
      /\ \A k \in 1..Len(equipment_rates) : equipment_rates[k].rental_days \in Nat \ {0}

\* An item with rental_days 1 on an invoice billed over half a day: one
\* day was passed to calculate_savings and stored in equipment_rates.
C15_Witness ==
  /\ IsCurrent(1) /\ Done(1)
  /\ Len(loc[1].parsed.equipment) = 1
  /\ loc[1].parsed.equipment[1].rental_days = Num(1)
  /\ loc[1].parsed.billed_from = DateStr(2) /\ loc[1].parsed.billed_through = DateStr(3)
  /\ \E k \in Positions(1, "calculate_savings") : trace[1][k].w.p_rental_days = 1
  /\ Len(equipment_rates) = 1 /\ equipment_rates[1].rental_days = 1

(***************************************************************************)
(* C16.  In POST /parse-base64 (both copies in index.js) an equipment item *)
(* that has no description, or whose amount is 0 and whose expected amount *)
(* computed from its rates is also 0, is skipped: no classify_equipment or *)
(* calculate_savings call and no equipment_rates insert is made for it and *)
(* it is not in equipment_with_rates.  An item with a non-zero amount      *)
(* keeps it: that amount, not the computed one, is passed to               *)
(* calculate_savings and reported as calculated_amount.                    *)
(***************************************************************************)
ItemOps == {"classify_equipment", "calculate_savings", "rates_insert"}

ClaimedExpected(ver, item, invDays) ==
  calculateExpectedAmount(item.day_rate, item.week_rate, item.four_week_rate,
                          Num(RentalDays(ver, item, invDays)))

ClaimedSkipped(ver, item, invDays) ==
  \/ item.description \in {Null, Str("")}
  \/ ClaimAmount(item.amount) = 0 /\ ClaimedExpected(ver, item, invDays) = 0

ItemsSeen(r) ==
  IF Positions(r, "insert") = {} THEN {} ELSE 1..Len(loc[r].parsed.equipment)

C16_SkippedItemsAndKeptAmounts ==
  \A r \in Slots : \A i \in ItemsSeen(r) :
    /\ ClaimedSkipped(req[r].ver, loc[r].parsed.equipment[i], loc[r].invDays) =>
         /\ \A k \in 1..Len(trace[r]) :
              trace[r][k].op \in ItemOps => trace[r][k].i # i
         /\ \A k \in 1..Len(loc[r].equipmentWithRates) :
              loc[r].equipmentWithRates[k].idx # i
         /\ \A k \in Positions(r, "update") : \A j \in 1..Len(trace[r][k].w.equipment_with_rates) :
              trace[r][k].w.equipment_with_rates[j].idx # i
    /\ ClaimAmount(loc[r].parsed.equipment[i].amount) # 0 =>
         /\ \A k \in Positions(r, "calculate_savings") :
              trace[r][k].i = i =>
                trace[r][k].w.p_actual_amount =
                  20 * ClaimAmount(loc[r].parsed.equipment[i].amount)
         /\ \A k \in 1..Len(loc[r].equipmentWithRates) :
              loc[r].equipmentWithRates[k].idx = i =>
                loc[r].equipmentWithRates[k].calculated_amount =
                  20 * ClaimAmount(loc[r].parsed.equipment[i].amount)

\* The earlier copy handled two items: the first, without amount and without
\* rates, was skipped; the second, with amount "12 USD" and a day rate, was
\* rated with its own amount.
C16_Witness ==
  /\ Done(1) /\ IsParseBase64(1) /\ req[1].ver = "old" /\ resp[1].success
  /\ Len(loc[1].parsed.equipment) = 2
  /\ loc[1].parsed.equipment[1].amount = Null
  /\ loc[1].parsed.equipment[1].day_rate = Null
  /\ ClaimedSkipped("old", loc[1].parsed.equipment[1], 0)
  /\ loc[1].parsed.equipment[2].amount = Str("12 USD")
  /\ loc[1].parsed.equipment[2].day_rate = Num(100)
  /\ Len(loc[1].equipmentWithRates) = 1
  /\ loc[1].equipmentWithRates[1].idx = 2
  /\ loc[1].equipmentWithRates[1].calculated_amount = 240
  /\ Len(equipment_rates) = 1

(***************************************************************************)
(* C17.  POST /chat always terminates with a response: whatever run        *)
(* statuses the assistant API returns, the handler retrieves the run       *)
(* status at most 61 times (the retrieve before the loop and at most 60    *)
(* polls) and then answers, with 'Assistant timed out' when the run had    *)
(* not completed after the 60 polls.  Every awaited call is taken to       *)
(* return or throw (fairness of SpecChatLive).                             *)
(***************************************************************************)
RetrievesBounded == chat[1].retrieves <= maxAttempts + 1
TimedOutWhenNotCompleted ==
  (Done(1) /\ chat[1].attempts = maxAttempts /\ chat[1].status # "completed") =>
    resp[1].status = 500 /\ resp[1].error = "Assistant timed out"

C17_ChatTerminates ==
  /\ []RetrievesBounded
  /\ []TimedOutWhenNotCompleted
  /\ (pc[1] = "start") ~> Done(1)

\* The run was still in progress after the 61st retrieve and the request was
\* answered 'Assistant timed out'.
C17_Witness ==
  /\ Done(1) /\ req[1].path = "/chat"
  /\ chat[1].retrieves = 61 /\ chat[1].attempts = 60
  /\ chat[1].status = "in_progress"
  /\ resp[1].error = "Assistant timed out"

(***************************************************************************)
(* C18.  In POST /chat a run whose status is retrieved as 'completed' by   *)
(* any poll, the 60th included, is answered from the assistant's messages: *)
(* the handler goes on to messages.list, and it answers 'Assistant timed   *)
(* out' only when the last status retrieved is not 'completed'.            *)
(***************************************************************************)
C18_CompletedRunIsAnswered ==
  /\ (chat[1].status = "completed" /\ pc[1] # "retrieve") =>
       \/ pc[1] \in {"list", "log"}
       \/ Done(1) /\ resp[1].error # "Assistant timed out"
  /\ (Done(1) /\ resp[1].error = "Assistant timed out") =>
       chat[1].status # "completed"

(***************************************************************************)
(* C19.  In POST /chat, whenever a retrieved run status is 'failed' or     *)
(* 'cancelled' the handler answers 500 'Assistant run failed' with that    *)
(* status, submits no further tool outputs (the request is over) and       *)
(* writes no chat_logs row.                                                *)
(***************************************************************************)
C19_FailedRunIsReported ==
  chat[1].status \in {"failed", "cancelled"} =>
    /\ Done(1)
    /\ resp[1].status = 500 /\ resp[1].error = "Assistant run failed"
    /\ resp[1].data = [status |-> chat[1].status]
    /\ chat_logs = <<>>

(***************************************************************************)
(* C20.  The conversation is logged exactly when it succeeds: a POST /chat *)
(* that answered success:true has stored exactly one chat_logs row, whose  *)
(* thread_id is the returned threadId (the supplied threadId when one was  *)
(* given, otherwise the id of the thread created for the request) and      *)
(* whose mode is 'dashboard' if and only if isLoggedIn is truthy; a POST   *)
(* /chat that answered with an error has stored no chat_logs row.          *)
(***************************************************************************)
LoggedBy(r) == {k \in 1..Len(chat_logs) : chat_logs[k].by = r}

C20_LoggedExactlyWhenSucceeded ==
  /\ Succeeded(1) =>
       /\ Len(chat_logs) = 1 /\ LoggedBy(1) = {1}
       /\ chat_logs[1].row.thread_id = resp[1].data.threadId
       /\ resp[1].data.threadId =
            (IF req[1].body.threadId # "" THEN req[1].body.threadId ELSE "thread_new")
       /\ (chat_logs[1].row.mode = "dashboard") <=> req[1].body.isLoggedIn
       /\ chat_logs[1].row.mode \in {"dashboard", "landing"}
  /\ (Done(1) /\ ~resp[1].success) => chat_logs = <<>>

(***************************************************************************)
(* C21.  Invoice data is scoped to the requesting user: during a POST      *)
(* /chat request every query made by the search_invoices,                  *)
(* get_invoice_details and get_savings_summary tools filters on user_id    *)
(* equal to the userId of the HTTP request, whatever arguments the         *)
(* assistant put in the tool call; when the request carries no userId      *)
(* these tools return 'User not logged in' and read no parsed_invoices     *)
(* row.  Read on the results pushed to toolOutputs, each of which carries  *)
(* the user_id its query filtered on.                                      *)
(***************************************************************************)
ReadHelpers == {"searchInvoices", "getInvoiceDetails", "getSavingsSummary"}

C21_QueriesScopedToRequestUser ==
  \A k \in 1..Len(chat[1].toolOutputs) :
    chat[1].toolOutputs[k].output.fn \in ReadHelpers =>
      IF Truthy(req[1].body.userId)
      THEN /\ chat[1].toolOutputs[k].output.kind # "User not logged in"
           /\ chat[1].toolOutputs[k].output.userId = req[1].body.userId
      ELSE chat[1].toolOutputs[k].output.kind = "User not logged in"

(***************************************************************************)
(* C23.  The two copies of calculateExpectedAmount in src/index.js (lines  *)
(* 298-314 and 1034-1064) return the same value for every combination of   *)
(* day rate, week rate, four-week rate and rental days.                    *)
(***************************************************************************)
C23_CopiesAgree == calcOut.done => calcOut.v = calcOut.older

\* Both copies were called with a day rate of 100, a four-week rate of 200
\* and 21 days, where the four-week rate caps the amount.
C23_Witness ==
  /\ calcOut.done
  /\ calcIn.dayRate = Num(100) /\ calcIn.weekRate = Null
  /\ calcIn.fourWeekRate = Num(200) /\ calcIn.rentalDays = Num(21)
  /\ calcOut.v = 200 * 20 /\ calcOut.older = 200 * 20

(***************************************************************************)
(* C22.  When fixExistingInvoices runs while POST /parse-base64 requests   *)
(* are in flight, the savings fields of a parsed_invoices row are still    *)
(* written at most once: the script never writes market_savings or         *)
(* equipment_with_rates of a row that a /parse-base64 request has inserted *)
(* but not yet updated, so the values a row ends with are those computed   *)
(* by the request that created it.                                         *)
(***************************************************************************)
WrittenAtMostOnce ==
  \A k \in 1..Len(parsed_invoices) : Len(parsed_invoices[k].saved) <= 1

\* Once the creating request's update has succeeded, the row holds the
\* values of that update.
KeepsCreatorsValues ==
  \A k \in 1..Len(parsed_invoices) :
    \A u \in Positions(parsed_invoices[k].by, "update") :
      trace[parsed_invoices[k].by][u].ans.kind = "ok" =>
        /\ parsed_invoices[k].market_savings =
             Num(trace[parsed_invoices[k].by][u].w.market_savings)
        /\ parsed_invoices[k].equipment_with_rates =
             trace[parsed_invoices[k].by][u].w.equipment_with_rates

\* A step in which the script writes a row finds the request that inserted
\* the row finished.
ScriptWritesNoRowInFlight ==
  \A k \in 1..Len(parsed_invoices) :
    parsed_invoices'[k].saved = Append(parsed_invoices[k].saved, ScriptSlot)
      => pc[parsed_invoices[k].by] = "done"

C22_ScriptLeavesRowsInFlightAlone ==
  [](WrittenAtMostOnce /\ KeepsCreatorsValues) /\ [][ScriptWritesNoRowInFlight]_vars

=============================================================================
